---- MODULE Spec2Model ----
(***************************************************************************)
(* The state protocol engine of gitea-tf-backend: the HTTP handler that    *)
(* serves GET / POST / LOCK / UNLOCK on /{name} (handlers.go) on top of    *)
(* the Gitea repository client (GiteaClient).  Locks are files             *)
(* states/{name}/.lock in the repository, state is the file                *)
(* states/{name}/terraform.tfstate.                                        *)
(*                                                                         *)
(* Requests are served concurrently, one goroutine per request.  A step of *)
(* the model is one call into the repository together with the local       *)
(* computation of the handler that follows it, up to the next call or the  *)
(* response.  The repository itself serialises the calls it receives.      *)
(***************************************************************************)
EXTENDS Integers, Sequences, FiniteSets, TLC

VARIABLES
    files,    \* the repository branch: path -> content, for the files that exist
    pc,       \* per request slot: where its handler stands
    req,      \* per request slot: the request being served
    loc,      \* per request slot: the handler's local variables
    resp,     \* per request slot: the response written
    granted,  \* history: per state name, the claim ID of the last LOCK answered
              \* 200 that no UNLOCK answered 200 has followed (<<>> when none)
    saved,    \* history: the state names on which a POST has been answered 200
    env,      \* the environment the server process was started in
    cfg       \* what LoadConfig returned to main: the configuration or the error

vars == <<files, pc, req, loc, resp, granted, saved, env, cfg>>

----------------------------------------------------------------------------
(* Bounds *)

\* number of requests that can be in flight at once
MaxProcs == 2
\* number of LOCK requests launched together in the race of SpecRace
Racers == 3

Procs == 1..MaxProcs
RaceProcs == 1..Racers

----------------------------------------------------------------------------
(* Data.  Text is a sequence of tokens; a request path is a sequence of    *)
(* characters, "/" among them.                                             *)

\* LockInfo.ID values clients send; "" is the empty ID (force-unlock)
IDs == {"", "a", "b"}
\* values of the ID query parameter of a POST
QueryIDs == {"", "a"}
\* claim IDs of the racing LOCK requests
RaceIDs == {"", "a", "b", "c"}
\* LockInfo.Operation stands for the advisory fields of a claim
Operations == {"plan", "apply"}
LockInfo == [ID : IDs, Operation : Operations]
RaceLockInfo == [ID : RaceIDs, Operation : Operations]

\* r.URL.Path values: "/" and "/p"
RootPath == <<"/">>
Paths == {RootPath, <<"/", "p">>}

\* state documents clients POST
StateBodies == {<<"v1">>, <<"v2">>}

Methods == {"GET", "POST", "LOCK", "UNLOCK", "PUT"}

\* json.Marshal of a LockInfo: the object's keys and values in field order
Marshal(info) == <<"ID", info.ID, "Operation", info.Operation>>

\* a body json.Unmarshal rejects
BadJSON == <<"{">>

\* a parser that takes every body, reading a zero LockInfo from a broken one
UnmarshalLenient(b) ==
    IF Len(b) = 4 /\ b[1] = "ID" /\ b[3] = "Operation"
    THEN [err |-> FALSE, info |-> [ID |-> b[2], Operation |-> b[4]]]
    ELSE [err |-> FALSE, info |-> [ID |-> "", Operation |-> ""]]

\* json.Unmarshal into a LockInfo: err, and the record when err is FALSE
Unmarshal(b) ==
    IF Len(b) = 4 /\ b[1] = "ID" /\ b[3] = "Operation"
    THEN [err |-> FALSE, info |-> [ID |-> b[2], Operation |-> b[4]]]
    ELSE [err |-> TRUE, info |-> [ID |-> "", Operation |-> ""]]

\* json.NewEncoder(w).Encode(lock): the response body carrying a claim
Encode(info) == Marshal(info) \o <<"\n">>

----------------------------------------------------------------------------
(* Path helpers (handlers.go) *)

RECURSIVE TrimLeft(_)
TrimLeft(s) ==
    IF s # <<>> /\ Head(s) = "/" THEN TrimLeft(Tail(s)) ELSE s

RECURSIVE TrimRight(_)
TrimRight(s) ==
    IF s # <<>> /\ s[Len(s)] = "/" THEN TrimRight(SubSeq(s, 1, Len(s) - 1)) ELSE s

\* a trim of the leading slashes only
extractStateNameLeading(path) == TrimLeft(path)

\* strings.Trim(path, "/")
extractStateName(path) == TrimRight(TrimLeft(path))

\* a state path built from the last segment of the name only
statePathLastSegment(name) ==
    LET slashes == {i \in 1..Len(name) : name[i] = "/"}
        last == IF slashes = {} THEN 0
                ELSE CHOOSE i \in slashes : \A j \in slashes : j <= i
    IN <<"states", "/">> \o SubSeq(name, last + 1, Len(name))
          \o <<"/", "terraform.tfstate">>

statePath(name) == <<"states", "/">> \o name \o <<"/", "terraform.tfstate">>

\* a lock path that is the path of the state file
lockPathIsStatePath(name) == statePath(name)

\* one lock path for every name
lockPathGlobal(name) == <<"states", "/", ".lock">>

lockPath(name) == <<"states", "/">> \o name \o <<"/", ".lock">>

Names == {extractStateName(p) : p \in Paths} \ {<<>>}

----------------------------------------------------------------------------
(* The repository client (GiteaClient) and the Gitea contents API behind   *)
(* it.  f is the branch's files; every operation returns err and, for a    *)
(* write, the files afterwards.                                            *)

\* the blob SHA Gitea reports for a file: a function of its content
SHA(content) == <<"sha">> \o content

\* base64.StdEncoding.EncodeToString: the text that travels in the API's
\* Content field, one encoded unit per token
EncodeToString(content) == [i \in 1..Len(content) |-> <<"b64", content[i]>>]

\* base64.StdEncoding.DecodeString: err on text that is not an encoding
DecodeString(text) ==
    IF \A i \in 1..Len(text) : Len(text[i]) = 2 /\ text[i][1] = "b64"
    THEN [err |-> FALSE, bytes |-> [i \in 1..Len(text) |-> text[i][2]]]
    ELSE [err |-> TRUE, bytes |-> <<>>]

\* the file a write leaves in the branch: Gitea decodes the Content it is sent
Written(f, path, content) ==
    [q \in DOMAIN f \cup {path} |->
        IF q = path THEN DecodeString(EncodeToString(content)).bytes ELSE f[q]]

\* GetFile: (nil, "", nil) when the file does not exist (404); otherwise the
\* Content Gitea sends (the file, encoded) is decoded
GetFile(f, path) ==
    IF path \notin DOMAIN f
    THEN [err |-> FALSE, found |-> FALSE, content |-> <<>>, sha |-> <<>>]
    ELSE LET decoded == DecodeString(EncodeToString(f[path])) IN
         IF decoded.err
         THEN [err |-> TRUE, found |-> FALSE, content |-> <<>>, sha |-> <<>>]
         ELSE [err |-> FALSE, found |-> TRUE, content |-> decoded.bytes,
               sha |-> SHA(f[path])]

\* FileExists
FileExists(f, path) ==
    LET got == GetFile(f, path)
    IN [err |-> got.err, exists |-> got.found, sha |-> got.sha]

\* a CreateFile that replaces an existing file (what the code must not see)
CreateFileOverwrite(f, path, content) ==
    [err |-> FALSE, files |-> Written(f, path, content)]

\* CreateFile: ErrFileAlreadyExists (Gitea's 422) when the file exists
CreateFile(f, path, content) ==
    IF path \in DOMAIN f
    THEN [err |-> TRUE, files |-> f]
    ELSE [err |-> FALSE, files |-> Written(f, path, content)]

\* UpdateFile: Gitea refuses a missing file and a SHA that is not the file's
UpdateFile(f, path, content, sha) ==
    IF path \in DOMAIN f /\ SHA(f[path]) = sha
    THEN [err |-> FALSE, files |-> Written(f, path, content)]
    ELSE [err |-> TRUE, files |-> f]

\* a DeleteFile that reports success and removes nothing
DeleteFileKeeps(f, path, sha) == [err |-> FALSE, files |-> f]

\* a DeleteFile that removes the file and reports a failure
DeleteFileReportsFailure(f, path, sha) ==
    [err |-> TRUE, files |-> [q \in DOMAIN f \ {path} |-> f[q]]]

\* a DeleteFile that removes every file of the branch
DeleteFileWipes(f, path, sha) ==
    IF path \in DOMAIN f /\ SHA(f[path]) = sha
    THEN [err |-> FALSE, files |-> <<>>]
    ELSE [err |-> TRUE, files |-> f]

\* a DeleteFile that removes the file whatever SHA it is given
DeleteFileIgnoresSHA(f, path, sha) ==
    IF path \in DOMAIN f
    THEN [err |-> FALSE, files |-> [q \in DOMAIN f \ {path} |-> f[q]]]
    ELSE [err |-> TRUE, files |-> f]

\* DeleteFile: Gitea refuses a missing file and a SHA that is not the file's
DeleteFile(f, path, sha) ==
    IF path \in DOMAIN f /\ SHA(f[path]) = sha
    THEN [err |-> FALSE, files |-> [q \in DOMAIN f \ {path} |-> f[q]]]
    ELSE [err |-> TRUE, files |-> f]

----------------------------------------------------------------------------
(* Requests and responses *)

NoBody == <<>>

\* hdr is the Lock-Id header, qry the ID query parameter (both read by POST only)
Requests ==
    [method : Methods, path : {RootPath}, body : {NoBody}, hdr : {""}, qry : {""}]
    \cup [method : {"GET", "PUT"}, path : Paths \ {RootPath}, body : {NoBody},
          hdr : {""}, qry : {""}]
    \cup [method : {"POST"}, path : Paths \ {RootPath}, body : StateBodies,
          hdr : IDs, qry : QueryIDs]
    \cup [method : {"LOCK"}, path : Paths \ {RootPath},
          body : {Marshal(l) : l \in LockInfo} \cup {BadJSON}, hdr : {""}, qry : {""}]
    \cup [method : {"UNLOCK"}, path : Paths \ {RootPath},
          body : {Marshal([ID |-> i, Operation |-> "plan"]) : i \in IDs} \cup {BadJSON},
          hdr : {""}, qry : {""}]

NoReq == [method |-> "", path |-> <<>>, body |-> NoBody, hdr |-> "", qry |-> ""]

NoFile == [err |-> FALSE, found |-> FALSE, content |-> <<>>, sha |-> <<>>]
\* seen: what GetFile(lockPath(name)) returned; st: what FileExists returned
NoLoc == [seen |-> NoFile, st |-> [err |-> FALSE, exists |-> FALSE, sha |-> <<>>]]

NoResp == [status |-> 0, body |-> NoBody]

Response(status, body) == [status |-> status, body |-> body]

\* http.Error(w, text, code)
Error(text, code) == Response(code, <<text>>)

NameOf(p) == extractStateName(req[p].path)

\* the claim a LOCK or UNLOCK request carries
ClaimOf(r) == Unmarshal(r.body).info

----------------------------------------------------------------------------
(* The handlers' decisions (handlers.go), as functions of what they read *)

\* a GET that answers the stored content with a line end appended
GetOutcomeTrailingNewline(got) ==
    IF ~got.found
    THEN Error("404 page not found", 404)
    ELSE Response(200, got.content \o <<"\n">>)

\* a GET that reports a missing state as an internal error
GetOutcomeMissingIsError(got) ==
    IF ~got.found
    THEN Error("internal server error", 500)
    ELSE Response(200, got.content)

\* handleGet, on the result of GetFile(statePath(name))
\* a failed read answered as a missing state
GetOutcomeHidesError(got) ==
    IF got.err \/ ~got.found
    THEN Error("404 page not found", 404)
    ELSE Response(200, got.content)

GetOutcome(got) ==
    IF got.err
    THEN Error("internal server error", 500)
    ELSE IF ~got.found
    THEN Error("404 page not found", 404)
    ELSE Response(200, got.content)

\* a claim identifier read from the query parameter only
PostLockIDQueryOnly(r) == r.qry

\* a claim identifier read from the Lock-Id header only
PostLockIDHeaderOnly(r) == r.hdr

\* handlePost: the caller's claim identifier, Lock-Id header first
PostLockID(r) == IF r.hdr # "" THEN r.hdr ELSE r.qry

\* handlePost, on the result lk of GetFile(lockPath(name)): the lock gate
PostGate(lk, r) ==
    IF lk.err
    THEN [pc |-> "done", resp |-> Error("internal server error", 500)]
    ELSE IF ~lk.found
    THEN [pc |-> "post_exists", resp |-> NoResp]
    ELSE LET existingLock == Unmarshal(lk.content) IN
         IF existingLock.err
         THEN [pc |-> "done", resp |-> Error("internal server error", 500)]
         ELSE IF PostLockID(r) # existingLock.info.ID
         THEN [pc |-> "done", resp |-> Response(423, Encode(existingLock.info))]
         ELSE [pc |-> "post_exists", resp |-> NoResp]

\* a re-lock answered with the claim just sent instead of the stored one
LockHeldEchoesRequest(existingLock, lockInfo) ==
    IF existingLock.ID = lockInfo.ID
    THEN Response(200, Encode(lockInfo))
    ELSE Response(423, Encode(existingLock))

\* a lock check that admits every claim on a locked name
LockHeldAdmitsAll(existingLock, lockInfo) == Response(200, Encode(existingLock))

\* handleLock on a name that is locked: idempotent re-lock, or locked
LockHeld(existingLock, lockInfo) ==
    IF existingLock.ID = lockInfo.ID
    THEN Response(200, Encode(existingLock))
    ELSE Response(423, Encode(existingLock))

\* handleLock, from the body to the result lk of GetFile(lockPath(name))
LockCheckOutcome(lk, r) ==
    LET lockInfo == Unmarshal(r.body) IN
    IF lockInfo.err
    THEN [pc |-> "done", resp |-> Error("invalid lock info", 400)]
    ELSE IF lk.err
    THEN [pc |-> "done", resp |-> Error("internal server error", 500)]
    ELSE IF lk.found
    THEN LET existingLock == Unmarshal(lk.content) IN
         IF existingLock.err
         THEN [pc |-> "done", resp |-> Error("internal server error", 500)]
         ELSE [pc |-> "done", resp |-> LockHeld(existingLock.info, lockInfo.info)]
    ELSE [pc |-> "lock_create", resp |-> NoResp]

\* a created lock answered with an empty body
LockCreatedSilent(lockInfo) == Response(200, NoBody)

\* handleLock after CreateFile succeeded: the claim is echoed
LockCreated(lockInfo) == Response(200, Encode(lockInfo))

\* handleLock after CreateFile failed, on a second GetFile(lockPath(name))
LockRecheckOutcome(lk) ==
    IF lk.found
    THEN Response(423, Encode(Unmarshal(lk.content).info))
    ELSE Error("failed to create lock", 500)

\* an ID check without the force-unlock exemption
UnlockRefusedStrict(unlockInfo, existingLock) == unlockInfo.ID # existingLock.ID

\* an ID check that refuses nobody
UnlockRefusedNever(unlockInfo, existingLock) == FALSE

\* handleUnlock: the ID check, passed by the empty ID (force-unlock)
UnlockRefused(unlockInfo, existingLock) ==
    unlockInfo.ID # "" /\ unlockInfo.ID # existingLock.ID

\* an unlock that fails when there is no lock
UnlockNoLockFails == Error("not locked", 409)

\* handleUnlock on a name that has no lock: success
UnlockNoLock == Response(200, NoBody)

\* handleUnlock, from the body to the result lk of GetFile(lockPath(name))
UnlockCheckOutcome(lk, r) ==
    LET unlockInfo == Unmarshal(r.body) IN
    IF unlockInfo.err
    THEN [pc |-> "done", resp |-> Error("invalid lock info", 400)]
    ELSE IF lk.err
    THEN [pc |-> "done", resp |-> Error("internal server error", 500)]
    ELSE IF ~lk.found
    THEN [pc |-> "done", resp |-> UnlockNoLock]
    ELSE LET existingLock == Unmarshal(lk.content) IN
         IF existingLock.err
         THEN [pc |-> "done", resp |-> Error("internal server error", 500)]
         ELSE IF UnlockRefused(unlockInfo.info, existingLock.info)
         THEN [pc |-> "done", resp |-> Response(409, Encode(existingLock.info))]
         ELSE [pc |-> "unlock_delete", resp |-> NoResp]

\* handlePost on the result wrote of CreateOrUpdateFile: the response
PostSaved(wrote) ==
    [files |-> wrote.files,
     resp |-> IF wrote.err THEN Error("failed to save state", 500)
              ELSE Response(200, NoBody)]

\* handlePost -> CreateOrUpdateFile after FileExists returned st: UpdateFile
\* with the SHA read, or CreateFile, and the response
PostWriteOutcome(f, r, st) ==
    LET path == statePath(extractStateName(r.path))
    IN PostSaved(IF st.err THEN [err |-> TRUE, files |-> f]
                 ELSE IF st.exists
                 THEN UpdateFile(f, path, r.body, st.sha)
                 ELSE CreateFile(f, path, r.body))

\* a handleLock that tries its create again for as long as it is refused
LockCreateOutcomeRetries(f, r, seen) ==
    LET path == lockPath(extractStateName(r.path))
        lockInfo == ClaimOf(r)
        wrote == CreateFile(f, path, Marshal(lockInfo))
    IN IF wrote.err
       THEN [files |-> wrote.files, pc |-> "lock_create", resp |-> NoResp]
       ELSE [files |-> wrote.files, pc |-> "done", resp |-> LockCreated(lockInfo)]

\* handleLock after GetFile returned seen (no content): CreateFile, or
\* UpdateFile when a SHA came with it, and the response or the re-check
LockCreateOutcome(f, r, seen) ==
    LET path == lockPath(extractStateName(r.path))
        lockInfo == ClaimOf(r)
        lockJSON == Marshal(lockInfo)
        wrote == IF seen.sha = <<>>
                 THEN CreateFile(f, path, lockJSON)
                 ELSE UpdateFile(f, path, lockJSON, seen.sha)
    IN IF wrote.err
       THEN [files |-> wrote.files, pc |-> "lock_recheck", resp |-> NoResp]
       ELSE [files |-> wrote.files, pc |-> "done", resp |-> LockCreated(lockInfo)]

\* handleUnlock after the ID check passed on the lock file seen: DeleteFile
\* with its SHA, and the response
UnlockDeleteOutcome(f, r, seen) ==
    LET deleted == DeleteFile(f, lockPath(extractStateName(r.path)), seen.sha)
    IN [files |-> deleted.files,
        resp |-> IF deleted.err THEN Error("failed to delete lock", 500)
                 ELSE Response(200, NoBody)]

\* a name check that lets every path through
NameMissingNever(name) == FALSE

\* ServeHTTP: name == ""
NameMissing(name) == name = <<>>

\* an unsupported method answered as if it were not implemented
MethodNotImplemented == Error("method not allowed", 501)

\* ServeHTTP: the default case of the switch on r.Method
MethodNotAllowed == Error("method not allowed", 405)

\* a dispatch that puts GET behind the lock: 423 while a lock file exists
FirstStepOnGetGated(r, lk, st) ==
    LET name == extractStateName(r.path)
        keep(out, got) == [pc |-> out.pc, resp |-> out.resp,
                           seen |-> IF out.pc = "done" THEN NoFile ELSE got]
    IN IF NameMissing(name)
       THEN [pc |-> "done", resp |-> Error("state name required", 400), seen |-> NoFile]
       ELSE IF r.method = "GET"
       THEN [pc |-> "done", seen |-> NoFile,
             resp |-> IF lk.found THEN Response(423, lk.content) ELSE GetOutcome(st)]
       ELSE IF r.method = "POST" THEN keep(PostGate(lk, r), NoFile)
       ELSE IF r.method = "LOCK" THEN keep(LockCheckOutcome(lk, r), lk)
       ELSE IF r.method = "UNLOCK" THEN keep(UnlockCheckOutcome(lk, r), lk)
       ELSE [pc |-> "done", resp |-> MethodNotAllowed, seen |-> NoFile]

\* ServeHTTP: the name check, the dispatch on the method and the handler's
\* step up to its first call into the repository and what follows from it;
\* lk is what GetFile(lockPath(name)) returns and st what
\* GetFile(statePath(name)) returns, when the handler makes the call.
\* seen is the lock file the handler keeps (its SHA) for its next call.
FirstStepOn(r, lk, st) ==
    LET name == extractStateName(r.path)
        keep(out, got) == [pc |-> out.pc, resp |-> out.resp,
                           seen |-> IF out.pc = "done" THEN NoFile ELSE got]
    IN IF NameMissing(name)
       THEN [pc |-> "done", resp |-> Error("state name required", 400), seen |-> NoFile]
       ELSE IF r.method = "GET"
       THEN [pc |-> "done", resp |-> GetOutcome(st), seen |-> NoFile]
       ELSE IF r.method = "POST" THEN keep(PostGate(lk, r), NoFile)
       ELSE IF r.method = "LOCK" THEN keep(LockCheckOutcome(lk, r), lk)
       ELSE IF r.method = "UNLOCK" THEN keep(UnlockCheckOutcome(lk, r), lk)
       ELSE [pc |-> "done", resp |-> MethodNotAllowed, seen |-> NoFile]

\* the first step on repository f
FirstStep(f, r) ==
    LET name == extractStateName(r.path)
    IN FirstStepOn(r, GetFile(f, lockPath(name)), GetFile(f, statePath(name)))

\* the history of granted claims after request r is answered rs
Granted(r, rs) ==
    IF rs.status = 200 /\ r.method = "LOCK"
    THEN [granted EXCEPT ![extractStateName(r.path)] = <<ClaimOf(r).ID>>]
    ELSE IF rs.status = 200 /\ r.method = "UNLOCK"
    THEN [granted EXCEPT ![extractStateName(r.path)] = <<>>]
    ELSE granted

----------------------------------------------------------------------------
(* Configuration (config.go).  The environment gives a value to each       *)
(* variable, "" or <<>> when it is unset or empty (os.Getenv does not tell *)
(* the two apart); AUTH_TOKEN and MAX_BODY_SIZE_MB are sequences of        *)
(* characters.                                                             *)

Digits == {"0", "1", "2", "3", "4", "5", "6", "7", "8", "9"}

DigitValue(c) ==
    CASE c = "0" -> 0 [] c = "1" -> 1 [] c = "2" -> 2 [] c = "3" -> 3
      [] c = "4" -> 4 [] c = "5" -> 5 [] c = "6" -> 6 [] c = "7" -> 7
      [] c = "8" -> 8 [] c = "9" -> 9

\* An int64 is its 64 bits in two's complement, as four limbs of 16 bits,
\* the lowest first.
Limb == 2^16

\* the int64 of a small natural number
Int64(n) == <<n % Limb, n \div Limb, 0, 0>>

\* x * m + a on 64 bits, for small m and a: the low 64 bits of the result
\* and the carry out of bit 63
MulAdd(x, m, a) ==
    LET l1 == x[1] * m + a
        l2 == x[2] * m + (l1 \div Limb)
        l3 == x[3] * m + (l2 \div Limb)
        l4 == x[4] * m + (l3 \div Limb)
    IN [bits |-> <<l1 % Limb, l2 % Limb, l3 % Limb, l4 % Limb>>,
        carry |-> l4 \div Limb]

\* -x on 64 bits
Negate(x) ==
    MulAdd([i \in 1..4 |-> (Limb - 1) - x[i]], 1, 1).bits

\* x < 0: bit 63 is set
Negative(x) == x[4] >= Limb \div 2

\* the unsigned value of a digit string on 64 bits, and whether it needs
\* more: the digits are taken one by one, up to the first that overflows
RECURSIVE DecimalValue(_)
DecimalValue(s) ==
    IF s = <<>> THEN [bits |-> Int64(0), over |-> FALSE]
    ELSE LET front == DecimalValue(SubSeq(s, 1, Len(s) - 1))
             next == MulAdd(front.bits, 10, DigitValue(s[Len(s)]))
         IN IF front.over THEN front
            ELSE [bits |-> next.bits, over |-> next.carry # 0]

\* x << 20 on an int64: the bits shifted out are dropped
ShiftLeft20(x) == MulAdd(MulAdd(x, 2^10, 0).bits, 2^10, 0).bits

\* strconv.ParseInt(s, 10, 64): an optional sign, then one digit or more;
\* a value outside the int64 range is an error
ParseInt(s) ==
    LET signed == s # <<>> /\ Head(s) \in {"+", "-"}
        digits == IF signed THEN Tail(s) ELSE s
        abs == DecimalValue(digits)
        minInt == <<0, 0, 0, Limb \div 2>>
    IN IF digits = <<>> \/ \E i \in 1..Len(digits) : digits[i] \notin Digits
       THEN [err |-> TRUE, val |-> Int64(0)]
       ELSE IF Head(s) = "-"
       THEN IF abs.over \/ (Negative(abs.bits) /\ abs.bits # minInt)
            THEN [err |-> TRUE, val |-> Int64(0)]
            ELSE [err |-> FALSE, val |-> Negate(abs.bits)]
       ELSE IF abs.over \/ Negative(abs.bits)
            THEN [err |-> TRUE, val |-> Int64(0)]
            ELSE [err |-> FALSE, val |-> abs.bits]

\* 50 << 20
DefaultMaxBodySize == Int64(50 * (2^20))

\* LoadConfig's results: (nil, err) and (cfg, nil)
ConfigError(text) == [config |-> <<>>, err |-> <<text>>]
ConfigOk(c) == [config |-> <<c>>, err |-> <<>>]

\* a validation that reports the last missing variable instead of the first
RequiredMissingLast(c) ==
    IF c.GiteaRepo = "" THEN <<"GITEA_REPO is required">>
    ELSE IF c.GiteaOwner = "" THEN <<"GITEA_OWNER is required">>
    ELSE IF c.GiteaToken = "" THEN <<"GITEA_TOKEN is required">>
    ELSE IF c.GiteaURL = "" THEN <<"GITEA_URL is required">>
    ELSE <<>>

\* LoadConfig: the validation of the required fields, <<>> when all are set
RequiredMissing(c) ==
    IF c.GiteaURL = "" THEN <<"GITEA_URL is required">>
    ELSE IF c.GiteaToken = "" THEN <<"GITEA_TOKEN is required">>
    ELSE IF c.GiteaOwner = "" THEN <<"GITEA_OWNER is required">>
    ELSE IF c.GiteaRepo = "" THEN <<"GITEA_REPO is required">>
    ELSE <<>>

\* LoadConfig on environment e
LoadConfig(e) ==
    LET mb == ParseInt(e.MAX_BODY_SIZE_MB)
        c == [GiteaURL |-> e.GITEA_URL,
              GiteaToken |-> e.GITEA_TOKEN,
              GiteaOwner |-> e.GITEA_OWNER,
              GiteaRepo |-> e.GITEA_REPO,
              GiteaBranch |-> IF e.GITEA_BRANCH = "" THEN "main" ELSE e.GITEA_BRANCH,
              ListenAddr |-> IF e.LISTEN_ADDR = "" THEN ":8080" ELSE e.LISTEN_ADDR,
              AuthToken |-> e.AUTH_TOKEN,
              MaxBodySize |-> IF e.MAX_BODY_SIZE_MB = <<>> THEN DefaultMaxBodySize
                              ELSE ShiftLeft20(mb.val)]
    IN IF e.MAX_BODY_SIZE_MB # <<>> /\ mb.err
       THEN ConfigError("MAX_BODY_SIZE_MB must be a valid integer")
       ELSE IF e.MAX_BODY_SIZE_MB # <<>> /\ (Negative(mb.val) \/ mb.val = Int64(0))
       THEN ConfigError("MAX_BODY_SIZE_MB must be positive")
       ELSE IF RequiredMissing(c) # <<>>
       THEN [config |-> <<>>, err |-> RequiredMissing(c)]
       ELSE ConfigOk(c)

\* the environment of the server of Spec: the required variables, no
\* AUTH_TOKEN (main installs no authMiddleware), defaults otherwise
ServerEnv ==
    [GITEA_URL |-> "https://gitea", GITEA_TOKEN |-> "t", GITEA_OWNER |-> "o",
     GITEA_REPO |-> "r", GITEA_BRANCH |-> "", LISTEN_ADDR |-> "",
     AUTH_TOKEN |-> <<>>, MAX_BODY_SIZE_MB |-> <<>>]

\* main before LoadConfig has returned
NotLoaded == [config |-> <<>>, err |-> <<>>]

----------------------------------------------------------------------------
(* Actions: one per step of a handler *)

\* slot p takes request r through ServeHTTP and the handler's first step,
\* whose result is out
ServeOn(p, r, out) ==
    /\ req' = [req EXCEPT ![p] = r]
    /\ pc' = [pc EXCEPT ![p] = out.pc]
    /\ loc' = [loc EXCEPT ![p].seen = out.seen]
    /\ resp' = [resp EXCEPT ![p] = out.resp]
    /\ granted' = Granted(r, out.resp)
    /\ UNCHANGED <<files, saved, env, cfg>>

\* slot p takes request r through ServeHTTP and the handler's first step
Serve(p, r) == ServeOn(p, r, FirstStep(files, r))

\* a request arrives (at the lowest free slot) and is served
ServeHTTP(p) ==
    /\ pc[p] = "idle"
    /\ \A q \in DOMAIN pc : q < p => pc[q] # "idle"
    /\ \E r \in Requests : Serve(p, r)

\* handlePost -> CreateOrUpdateFile: FileExists(statePath(name))
PostExists(p) ==
    /\ pc[p] = "post_exists"
    /\ pc' = [pc EXCEPT ![p] = "post_write"]
    /\ loc' = [loc EXCEPT ![p].st = FileExists(files, statePath(NameOf(p)))]
    /\ UNCHANGED <<files, req, resp, granted, saved, env, cfg>>

\* handlePost -> CreateOrUpdateFile: UpdateFile or CreateFile, and the response
PostWrite(p) ==
    /\ pc[p] = "post_write"
    /\ LET out == PostWriteOutcome(files, req[p], loc[p].st)
       IN /\ files' = out.files
          /\ resp' = [resp EXCEPT ![p] = out.resp]
          /\ saved' = IF out.resp.status = 200 THEN saved \cup {NameOf(p)} ELSE saved
    /\ pc' = [pc EXCEPT ![p] = "done"]
    /\ loc' = [loc EXCEPT ![p] = NoLoc]
    /\ UNCHANGED <<req, granted, env, cfg>>

\* handleLock: CreateFile (UpdateFile when GetFile gave a SHA) and the response
LockCreate(p) ==
    /\ pc[p] = "lock_create"
    /\ LET out == LockCreateOutcome(files, req[p], loc[p].seen)
       IN /\ files' = out.files
          /\ pc' = [pc EXCEPT ![p] = out.pc]
          /\ resp' = [resp EXCEPT ![p] = out.resp]
          /\ granted' = Granted(req[p], out.resp)
    /\ loc' = [loc EXCEPT ![p] = NoLoc]
    /\ UNCHANGED <<req, saved, env, cfg>>

\* handleLock after a failed create: GetFile(lockPath(name)) again
LockRecheck(p) ==
    /\ pc[p] = "lock_recheck"
    /\ pc' = [pc EXCEPT ![p] = "done"]
    /\ resp' = [resp EXCEPT ![p] =
                  LockRecheckOutcome(GetFile(files, lockPath(NameOf(p))))]
    /\ UNCHANGED <<files, req, loc, granted, saved, env, cfg>>

\* handleUnlock: DeleteFile(lockPath(name), sha) and the response
UnlockDelete(p) ==
    /\ pc[p] = "unlock_delete"
    /\ LET out == UnlockDeleteOutcome(files, req[p], loc[p].seen)
       IN /\ files' = out.files
          /\ resp' = [resp EXCEPT ![p] = out.resp]
          /\ granted' = Granted(req[p], out.resp)
    /\ pc' = [pc EXCEPT ![p] = "done"]
    /\ loc' = [loc EXCEPT ![p] = NoLoc]
    /\ UNCHANGED <<req, saved, env, cfg>>

\* the response has been sent; the slot serves the next request
Finish(p) ==
    /\ pc[p] = "done"
    /\ pc' = [pc EXCEPT ![p] = "idle"]
    /\ req' = [req EXCEPT ![p] = NoReq]
    /\ resp' = [resp EXCEPT ![p] = NoResp]
    /\ UNCHANGED <<files, loc, granted, saved, env, cfg>>

----------------------------------------------------------------------------
(* Spec: the server on an empty repository, MaxProcs requests at a time *)

Init ==
    /\ files = <<>>
    /\ pc = [p \in Procs |-> "idle"]
    /\ req = [p \in Procs |-> NoReq]
    /\ loc = [p \in Procs |-> NoLoc]
    /\ resp = [p \in Procs |-> NoResp]
    /\ granted = [n \in Names |-> <<>>]
    /\ saved = {}
    /\ env = ServerEnv
    /\ cfg = LoadConfig(ServerEnv)

Next ==
    \E p \in Procs :
        \/ ServeHTTP(p)
        \/ PostExists(p)
        \/ PostWrite(p)
        \/ LockCreate(p)
        \/ LockRecheck(p)
        \/ UnlockDelete(p)
        \/ Finish(p)

Spec == Init /\ [][Next]_vars

----------------------------------------------------------------------------
(* SpecRace: Racers LOCK requests with pairwise distinct claim IDs are     *)
(* launched together against one name that holds no lock; each slot holds  *)
(* the request it is going to serve.                                       *)

RaceRequests ==
    [method : {"LOCK"}, path : Paths \ {RootPath},
     body : {Marshal(l) : l \in RaceLockInfo}, hdr : {""}, qry : {""}]

RaceInit ==
    /\ files \in {<<>>} \cup {statePath(n) :> b : n \in Names, b \in StateBodies}
    /\ pc = [p \in RaceProcs |-> "idle"]
    /\ req \in [RaceProcs -> RaceRequests]
    /\ \A p, q \in RaceProcs :
         p # q => /\ ClaimOf(req[p]).ID # ClaimOf(req[q]).ID
                  /\ req[p].path = req[q].path
    /\ loc = [p \in RaceProcs |-> NoLoc]
    /\ resp = [p \in RaceProcs |-> NoResp]
    /\ granted = [n \in Names |-> <<>>]
    /\ saved = {n \in Names : statePath(n) \in DOMAIN files}
    /\ env = ServerEnv
    /\ cfg = LoadConfig(ServerEnv)

\* a launched request is served
RaceServe(p) ==
    /\ pc[p] = "idle"
    /\ Serve(p, req[p])

RaceNext ==
    \E p \in RaceProcs :
        \/ RaceServe(p)
        \/ LockCreate(p)
        \/ LockRecheck(p)

SpecRace == RaceInit /\ [][RaceNext]_vars

----------------------------------------------------------------------------
(* Vocabulary of the properties *)

\* name n holds a lock in repository f
Locked(f, n) == lockPath(n) \in DOMAIN f

\* the claim held on n (n is locked)
Held(f, n) == Unmarshal(f[lockPath(n)]).info

\* f and g agree on every file but path
SameExcept(f, g, path) ==
    /\ DOMAIN f \ {path} = DOMAIN g \ {path}
    /\ \A q \in DOMAIN f \ {path} : f[q] = g[q]

\* in this step slot p takes a request (req'[p]) through its first step
Arrives(p) == pc[p] = "idle" /\ pc'[p] # "idle"

\* in this step slot p, standing at label l, takes its step
StepsFrom(p, l) == pc[p] = l /\ pc'[p] # l

\* the claim identifier a POST carries: the Lock-Id header, else the ID parameter
CallerID(r) == IF r.hdr # "" THEN r.hdr ELSE r.qry

AllDone == \A p \in DOMAIN pc : pc[p] = "done"

----------------------------------------------------------------------------
(* C1 (SpecRace).  Racers concurrent LOCK requests with pairwise distinct   *)
(* claim IDs against the same unlocked name: once all are answered, exactly *)
(* one got 200 (with its own claim) and all the others 423 (with the        *)
(* winner's claim), and the lock held on the name is the winner's claim.    *)
C1_RaceOneWinner ==
    AllDone =>
        LET won == {p \in DOMAIN pc : resp[p].status = 200}
            lost == {p \in DOMAIN pc : resp[p].status = 423}
        IN /\ Cardinality(won) = 1
           /\ Cardinality(lost) = Cardinality(DOMAIN pc) - 1
           /\ \A p \in won :
                /\ Locked(files, NameOf(p))
                /\ files[lockPath(NameOf(p))] = Marshal(ClaimOf(req[p]))
                /\ resp[p].body = Encode(ClaimOf(req[p]))
                /\ \A q \in lost : resp[q].body = Encode(ClaimOf(req[p]))

C1_Witness ==
    /\ AllDone
    /\ Cardinality(DOMAIN pc) >= 3
    /\ \E p \in DOMAIN pc : resp[p].status = 200 /\ Held(files, NameOf(p)) = ClaimOf(req[p])
    /\ Cardinality({q \in DOMAIN pc : resp[q].status = 423}) >= 2

(* C2.  Mutual exclusion: a LOCK on name n is answered 200 only if no claim *)
(* with another ID has been granted on n (LOCK answered 200) since the last *)
(* UNLOCK on n that was answered 200, in every interleaving of requests.    *)
C2_MutualExclusion ==
    [][\A p \in DOMAIN pc :
         (/\ pc[p] # "done" /\ pc'[p] = "done"
          /\ req'[p].method = "LOCK"
          /\ resp'[p].status = 200)
         => granted[extractStateName(req'[p].path)]
                \in {<<>>, <<ClaimOf(req'[p]).ID>>}]_vars

C2_Witness ==
    \E p, q \in DOMAIN pc :
        /\ pc[p] = "done" /\ req[p].method = "LOCK" /\ resp[p].status = 200
        /\ granted[NameOf(p)] = <<ClaimOf(req[p]).ID>>
        /\ pc[q] = "done" /\ req[q].method = "LOCK" /\ resp[q].status = 423
        /\ req[q].path = req[p].path
        /\ ClaimOf(req[q]).ID # ClaimOf(req[p]).ID

(* C3.  A POST on a name whose lock is held with an ID other than the       *)
(* caller's claim identifier is answered 423 with the held lock as body and *)
(* changes no file.  A POST on a name that is unlocked, or locked with the  *)
(* caller's identifier, passes the lock check; when no other request        *)
(* changes the state file between the POST's look at it and its write, the  *)
(* POST is answered 200 and the stored state becomes its body.              *)
C3_PostGatedByLock ==
    [][\A p \in DOMAIN pc :
         LET r == req'[p]
             n == extractStateName(r.path)
         IN /\ (Arrives(p) /\ r.method = "POST" /\ n # <<>>) =>
                 IF Locked(files, n) /\ Held(files, n).ID # CallerID(r)
                 THEN /\ pc'[p] = "done"
                      /\ resp'[p] = Response(423, Encode(Held(files, n)))
                      /\ files' = files
                 ELSE /\ pc'[p] = "post_exists"
                      /\ files' = files
            /\ (/\ StepsFrom(p, "post_write")
                /\ FileExists(files, statePath(n)) = loc[p].st) =>
                 /\ pc'[p] = "done"
                 /\ resp'[p] = Response(200, NoBody)
                 /\ statePath(n) \in DOMAIN files'
                 /\ files'[statePath(n)] = r.body
                 /\ SameExcept(files, files', statePath(n))]_vars

C3_Witness ==
    \E p, q \in DOMAIN pc :
        /\ pc[p] = "done" /\ req[p].method = "POST" /\ resp[p].status = 423
        /\ Locked(files, NameOf(p))
        /\ Held(files, NameOf(p)).ID # CallerID(req[p])
        /\ resp[p].body = Encode(Held(files, NameOf(p)))
        /\ pc[q] = "done" /\ req[q].method = "POST" /\ resp[q].status = 200
        /\ req[q].path = req[p].path
        /\ Held(files, NameOf(q)).ID = CallerID(req[q])
        /\ files[statePath(NameOf(q))] = req[q].body

(* C4.  A LOCK with claim ID b on a name locked with ID a # b is answered   *)
(* 423 with the existing claim as body, and no file changes.                *)
C4_LockConflict ==
    [][\A p \in DOMAIN pc :
         LET r == req'[p]
             n == extractStateName(r.path)
         IN (/\ Arrives(p) /\ r.method = "LOCK" /\ n # <<>>
             /\ ~Unmarshal(r.body).err
             /\ Locked(files, n)
             /\ Held(files, n).ID # ClaimOf(r).ID) =>
                /\ pc'[p] = "done"
                /\ resp'[p] = Response(423, Encode(Held(files, n)))
                /\ files' = files]_vars

C4_Witness ==
    \E p \in DOMAIN pc :
        /\ pc[p] = "done" /\ req[p].method = "LOCK" /\ resp[p].status = 423
        /\ Locked(files, NameOf(p))
        /\ Held(files, NameOf(p)).ID # ClaimOf(req[p]).ID
        /\ resp[p].body = Encode(Held(files, NameOf(p)))

(* C5.  A LOCK whose claim ID is the ID of the lock held on the name is     *)
(* answered 200 with the stored claim as body, also when the claim sent     *)
(* differs from it in another field, and no file changes: a second          *)
(* identical LOCK leaves the state the first one left.                      *)
C5_RelockIdempotent ==
    [][\A p \in DOMAIN pc :
         LET r == req'[p]
             n == extractStateName(r.path)
         IN (/\ Arrives(p) /\ r.method = "LOCK" /\ n # <<>>
             /\ ~Unmarshal(r.body).err
             /\ Locked(files, n)
             /\ Held(files, n).ID = ClaimOf(r).ID) =>
                /\ pc'[p] = "done"
                /\ resp'[p] = Response(200, Encode(Held(files, n)))
                /\ files' = files]_vars

C5_Witness ==
    \E p \in DOMAIN pc :
        /\ pc[p] = "done" /\ req[p].method = "LOCK" /\ resp[p].status = 200
        /\ Locked(files, NameOf(p))
        /\ Held(files, NameOf(p)).ID = ClaimOf(req[p]).ID
        /\ Held(files, NameOf(p)).Operation # ClaimOf(req[p]).Operation
        /\ resp[p].body = Encode(Held(files, NameOf(p)))

(* C6.  A LOCK with a parseable claim on a name that holds no lock, neither *)
(* when the handler reads the lock file nor when it creates it, is answered *)
(* 200 with the submitted claim as body, and the lock then held on the name *)
(* is exactly the submitted claim.                                          *)
C6_LockOnUnlocked ==
    [][\A p \in DOMAIN pc :
         LET r == req'[p]
             n == extractStateName(r.path)
         IN /\ (/\ Arrives(p) /\ r.method = "LOCK" /\ n # <<>>
                /\ ~Unmarshal(r.body).err
                /\ ~Locked(files, n)) =>
                  /\ pc'[p] = "lock_create"
                  /\ files' = files
            /\ (StepsFrom(p, "lock_create") /\ ~Locked(files, n)) =>
                  /\ pc'[p] = "done"
                  /\ resp'[p] = Response(200, Encode(ClaimOf(r)))
                  /\ Locked(files', n)
                  /\ Held(files', n) = ClaimOf(r)
                  /\ SameExcept(files, files', lockPath(n))]_vars

C6_Witness ==
    \E p \in DOMAIN pc :
        /\ pc[p] = "done" /\ req[p].method = "LOCK" /\ resp[p].status = 200
        /\ resp[p].body = Encode(ClaimOf(req[p]))
        /\ Locked(files, NameOf(p))
        /\ Held(files, NameOf(p)) = ClaimOf(req[p])
        /\ \A q \in DOMAIN pc : q # p => pc[q] = "idle"

(* C7.  An UNLOCK with a non-empty ID that differs from the ID of the lock  *)
(* held on the name is answered 409 with the existing claim as body, and no *)
(* file changes: the lock is still held.                                    *)
C7_UnlockWrongID ==
    [][\A p \in DOMAIN pc :
         LET r == req'[p]
             n == extractStateName(r.path)
         IN (/\ Arrives(p) /\ r.method = "UNLOCK" /\ n # <<>>
             /\ ~Unmarshal(r.body).err
             /\ Locked(files, n)
             /\ ClaimOf(r).ID # ""
             /\ ClaimOf(r).ID # Held(files, n).ID) =>
                /\ pc'[p] = "done"
                /\ resp'[p] = Response(409, Encode(Held(files, n)))
                /\ files' = files]_vars

C7_Witness ==
    \E p \in DOMAIN pc :
        /\ pc[p] = "done" /\ req[p].method = "UNLOCK" /\ resp[p].status = 409
        /\ ClaimOf(req[p]).ID # ""
        /\ Locked(files, NameOf(p))
        /\ Held(files, NameOf(p)).ID # ClaimOf(req[p]).ID
        /\ resp[p].body = Encode(Held(files, NameOf(p)))

(* C8.  An UNLOCK with an empty ID (force-unlock) is never refused: on a    *)
(* name without lock it is answered 200; on a locked name it goes on to     *)
(* delete the lock file it read, whatever its claim, and, the lock file     *)
(* being still that one, is answered 200 and leaves the name without lock.  *)
C8_ForceUnlock ==
    [][\A p \in DOMAIN pc :
         LET r == req'[p]
             n == extractStateName(r.path)
         IN /\ (/\ Arrives(p) /\ r.method = "UNLOCK" /\ n # <<>>
                /\ ~Unmarshal(r.body).err
                /\ ClaimOf(r).ID = "") =>
                  /\ files' = files
                  /\ IF Locked(files, n)
                     THEN /\ pc'[p] = "unlock_delete"
                          /\ loc'[p].seen = GetFile(files, lockPath(n))
                     ELSE /\ pc'[p] = "done"
                          /\ resp'[p] = Response(200, NoBody)
            /\ (/\ StepsFrom(p, "unlock_delete")
                /\ ClaimOf(r).ID = ""
                /\ GetFile(files, lockPath(n)) = loc[p].seen) =>
                  /\ pc'[p] = "done"
                  /\ resp'[p] = Response(200, NoBody)
                  /\ ~Locked(files', n)
                  /\ SameExcept(files, files', lockPath(n))]_vars

C8_Witness ==
    \E p, q \in DOMAIN pc :
        /\ pc[p] = "done" /\ req[p].method = "UNLOCK" /\ resp[p].status = 200
        /\ ClaimOf(req[p]).ID = ""
        /\ ~Locked(files, NameOf(p))
        /\ pc[q] = "done" /\ req[q].method = "LOCK" /\ resp[q].status = 200
        /\ req[q].path = req[p].path
        /\ ClaimOf(req[q]).ID # ""

(* C9.  An UNLOCK on a name that holds no lock is answered 200 whatever ID  *)
(* it carries, empty or not, and changes no file: neither lock nor stored   *)
(* state.                                                                   *)
C9_UnlockNoLock ==
    [][\A p \in DOMAIN pc :
         LET r == req'[p]
             n == extractStateName(r.path)
         IN (/\ Arrives(p) /\ r.method = "UNLOCK" /\ n # <<>>
             /\ ~Unmarshal(r.body).err
             /\ ~Locked(files, n)) =>
                /\ pc'[p] = "done"
                /\ resp'[p] = Response(200, NoBody)
                /\ files' = files]_vars

C9_Witness ==
    \E p \in DOMAIN pc :
        /\ pc[p] = "done" /\ req[p].method = "UNLOCK" /\ resp[p].status = 200
        /\ ClaimOf(req[p]).ID # ""
        /\ ~Locked(files, NameOf(p))
        /\ statePath(NameOf(p)) \in DOMAIN files
        /\ \A q \in DOMAIN pc : q # p => pc[q] = "idle"

\* handleLock run from its first step to its response on repository f, no
\* other request taking a step in between
LockAlone(f, r) ==
    LET first == FirstStep(f, r)
        second == LockCreateOutcome(f, r, first.seen)
    IN IF first.pc = "done" THEN first.resp
       ELSE IF second.pc = "done" THEN second.resp
       ELSE LockRecheckOutcome(GetFile(second.files, lockPath(extractStateName(r.path))))

(* C10.  An UNLOCK whose ID is the ID of the lock held on the name goes on  *)
(* to delete the lock file it read and, the lock file being still that one, *)
(* is answered 200 and removes the lock, so that a LOCK served next on that *)
(* name is answered 200 with its own claim, whatever claim it carries.      *)
C10_UnlockThenLock ==
    [][\A p \in DOMAIN pc :
         LET r == req'[p]
             n == extractStateName(r.path)
         IN /\ (/\ Arrives(p) /\ r.method = "UNLOCK" /\ n # <<>>
                /\ ~Unmarshal(r.body).err
                /\ Locked(files, n)
                /\ ClaimOf(r).ID = Held(files, n).ID) =>
                  /\ pc'[p] = "unlock_delete"
                  /\ loc'[p].seen = GetFile(files, lockPath(n))
                  /\ files' = files
            /\ (/\ StepsFrom(p, "unlock_delete")
                /\ GetFile(files, lockPath(n)) = loc[p].seen
                /\ ClaimOf(r).ID = Held(files, n).ID) =>
                  /\ pc'[p] = "done"
                  /\ resp'[p] = Response(200, NoBody)
                  /\ ~Locked(files', n)
                  /\ \A next \in Requests :
                       (next.method = "LOCK" /\ next.path = r.path
                        /\ ~Unmarshal(next.body).err) =>
                          LockAlone(files', next)
                              = Response(200, Encode(ClaimOf(next)))]_vars

C10_Witness ==
    \E p, q \in DOMAIN pc :
        /\ pc[p] = "done" /\ req[p].method = "UNLOCK" /\ resp[p].status = 200
        /\ ClaimOf(req[p]).ID # ""
        /\ pc[q] = "done" /\ req[q].method = "LOCK" /\ resp[q].status = 200
        /\ req[q].path = req[p].path
        /\ ClaimOf(req[q]).ID # ClaimOf(req[p]).ID
        /\ Locked(files, NameOf(q))
        /\ Held(files, NameOf(q)) = ClaimOf(req[q])

\* a GET request on path
GetRequest(path) ==
    [method |-> "GET", path |-> path, body |-> NoBody, hdr |-> "", qry |-> ""]

\* in this step slot p writes the response of its request
Answers(p) == pc[p] # "done" /\ pc'[p] = "done"

(* C11.  Round trip: when a POST is answered 200, a GET served next on the  *)
(* same name, before any other request takes a step, is answered 200 with a *)
(* body equal to the posted body, token for token.                          *)
C11_RoundTrip ==
    [][\A p \in DOMAIN pc :
         (Answers(p) /\ req'[p].method = "POST" /\ resp'[p].status = 200) =>
            FirstStep(files', GetRequest(req'[p].path)).resp
                = Response(200, req'[p].body)]_vars

C11_Witness ==
    \E p, q \in DOMAIN pc :
        /\ pc[p] = "done" /\ req[p].method = "POST" /\ resp[p].status = 200
        /\ pc[q] = "done" /\ req[q].method = "GET" /\ resp[q].status = 200
        /\ req[q].path = req[p].path
        /\ resp[q].body = req[p].body
        /\ req[p].body # NoBody

(* C12.  A GET on a name on which no POST has ever been answered 200 is     *)
(* answered 404, never 500, whether the name is locked or not.              *)
C12_GetNeverSaved ==
    [][\A p \in DOMAIN pc :
         LET r == req'[p]
             n == extractStateName(r.path)
         IN (Arrives(p) /\ r.method = "GET" /\ n # <<>> /\ n \notin saved) =>
                /\ pc'[p] = "done"
                /\ resp'[p].status = 404
                /\ files' = files]_vars

C12_Witness ==
    \E p \in DOMAIN pc :
        /\ pc[p] = "done" /\ req[p].method = "GET" /\ resp[p].status = 404
        /\ NameOf(p) # <<>>
        /\ NameOf(p) \notin saved
        /\ Locked(files, NameOf(p))

ErrorStatuses == {400, 405, 409, 423, 500}

(* C13.  Error responses are free of side effects: a step of a request that *)
(* changes any file of the repository (a lock or a stored state) is the     *)
(* step in which that request is answered, and the answer is 200; so a      *)
(* request answered 400, 405, 409, 423 or 500 has changed nothing.          *)
C13_ErrorsChangeNothing ==
    [][\A p \in DOMAIN pc :
         (pc'[p] # pc[p] /\ files' # files) =>
            /\ pc'[p] = "done"
            /\ resp'[p].status = 200
            /\ resp'[p].status \notin ErrorStatuses]_vars

C13_Witness ==
    \E p, q \in DOMAIN pc :
        /\ pc[p] = "done" /\ req[p].method = "POST" /\ resp[p].status = 500
        /\ pc[q] = "done" /\ req[q].method = "POST" /\ resp[q].status = 200
        /\ req[q].path = req[p].path
        /\ req[q].body # req[p].body
        /\ files[statePath(NameOf(q))] = req[q].body

(* C14.  Status codes of the lock operations: on a non-empty name a LOCK is *)
(* only ever answered 200, 400 or 423 and an UNLOCK only ever 200, 400 or   *)
(* 409, in every interleaving of requests (no call into the repository is   *)
(* lost in transport here).                                                 *)
C14_LockStatusCodes ==
    \A p \in DOMAIN pc :
        (pc[p] = "done" /\ NameOf(p) # <<>>) =>
            /\ req[p].method = "LOCK" => resp[p].status \in {200, 400, 423}
            /\ req[p].method = "UNLOCK" => resp[p].status \in {200, 400, 409}

(* C15.  A client re-sending its claim is never rejected: a LOCK carrying   *)
(* claim ID a is never answered 423 with a body that is a claim of ID a,    *)
(* also when two LOCK requests with the same ID race on an unlocked name.   *)
C15_SameClaimNeverRejected ==
    \A p \in DOMAIN pc :
        (pc[p] = "done" /\ req[p].method = "LOCK" /\ resp[p].status = 423) =>
            ~\E held \in LockInfo :
                /\ held.ID = ClaimOf(req[p]).ID
                /\ resp[p].body = Encode(held)

(* C16.  A request whose path is empty once its slashes are trimmed is      *)
(* answered 400 "state name required" whatever its method, supported or     *)
(* not (400 goes before 405), whatever the repository holds (the answer     *)
(* is the one an empty repository gives), and no file changes.              *)
C16_EmptyNameRejected ==
    [][\A p \in DOMAIN pc :
         LET r == req'[p] IN
         (Arrives(p) /\ extractStateName(r.path) = <<>>) =>
            /\ pc'[p] = "done"
            /\ resp'[p] = Error("state name required", 400)
            /\ FirstStep(<<>>, r).resp = resp'[p]
            /\ files' = files
            /\ granted' = granted]_vars

C16_Witness ==
    \E p, q \in DOMAIN pc :
        /\ pc[p] = "done" /\ req[p].method = "PUT" /\ NameOf(p) = <<>>
        /\ resp[p].status = 400
        /\ pc[q] = "done" /\ req[q].method = "LOCK" /\ NameOf(q) = <<>>
        /\ resp[q].status = 400
        /\ files # <<>>

(* C17.  A request on a non-empty name with a method other than GET, POST,  *)
(* LOCK and UNLOCK is answered 405 and changes neither a lock nor a stored  *)
(* state.                                                                   *)
C17_OtherMethodRejected ==
    [][\A p \in DOMAIN pc :
         LET r == req'[p] IN
         (/\ Arrives(p) /\ extractStateName(r.path) # <<>>
          /\ r.method \notin {"GET", "POST", "LOCK", "UNLOCK"}) =>
            /\ pc'[p] = "done"
            /\ resp'[p].status = 405
            /\ files' = files
            /\ granted' = granted]_vars

C17_Witness ==
    \E p \in DOMAIN pc :
        /\ pc[p] = "done" /\ req[p].method = "PUT" /\ NameOf(p) # <<>>
        /\ resp[p].status = 405
        /\ Locked(files, NameOf(p))
        /\ statePath(NameOf(p)) \in DOMAIN files

(* C18.  A LOCK or UNLOCK whose body does not parse as a LockInfo is        *)
(* answered 400 "invalid lock info", locked name or not: the answer is the  *)
(* one an empty repository gives (the lock is not consulted) and no file    *)
(* changes.                                                                 *)
C18_BadBodyRejected ==
    [][\A p \in DOMAIN pc :
         LET r == req'[p] IN
         (/\ Arrives(p) /\ extractStateName(r.path) # <<>>
          /\ r.method \in {"LOCK", "UNLOCK"}
          /\ r.body = BadJSON) =>
            /\ pc'[p] = "done"
            /\ resp'[p] = Error("invalid lock info", 400)
            /\ FirstStep(<<>>, r).resp = resp'[p]
            /\ files' = files
            /\ granted' = granted]_vars

C18_Witness ==
    \E p, q \in DOMAIN pc :
        /\ pc[p] = "done" /\ req[p].method = "LOCK" /\ req[p].body = BadJSON
        /\ resp[p].status = 400
        /\ pc[q] = "done" /\ req[q].method = "UNLOCK" /\ req[q].body = BadJSON
        /\ resp[q].status = 400
        /\ NameOf(p) # <<>> /\ req[q].path = req[p].path
        /\ Locked(files, NameOf(p))

\* handlePost run from its first step to its response on repository f, no
\* other request taking a step in between
PostAlone(f, r) ==
    LET first == FirstStep(f, r)
        st == FileExists(f, statePath(extractStateName(r.path)))
    IN IF first.pc = "done" THEN first.resp
       ELSE PostWriteOutcome(f, r, st).resp

(* C19.  The claim identifier of a POST is its Lock-Id header when that is  *)
(* not empty, and its ID query parameter otherwise.  On a locked name: a    *)
(* POST without header whose query parameter is the held ID passes the lock *)
(* check and, run to its end, is answered 200; a POST whose non-empty       *)
(* header differs from the held ID is answered 423, also when its query     *)
(* parameter is the held ID; a POST whose non-empty header is the held ID   *)
(* passes whatever its query parameter.                                     *)
C19_ClaimIdentifier ==
    [][\A p \in DOMAIN pc :
         LET r == req'[p]
             n == extractStateName(r.path)
         IN (Arrives(p) /\ r.method = "POST" /\ n # <<>> /\ Locked(files, n)) =>
              /\ (r.hdr = "" /\ r.qry = Held(files, n).ID) =>
                    /\ pc'[p] = "post_exists"
                    /\ PostAlone(files, r) = Response(200, NoBody)
              /\ (r.hdr # "" /\ r.hdr # Held(files, n).ID) =>
                    /\ pc'[p] = "done"
                    /\ resp'[p] = Response(423, Encode(Held(files, n)))
              /\ (r.hdr # "" /\ r.hdr = Held(files, n).ID) =>
                    /\ pc'[p] = "post_exists"
                    /\ PostAlone(files, r) = Response(200, NoBody)]_vars

C19_Witness ==
    \E p, q \in DOMAIN pc :
        /\ pc[p] = "done" /\ req[p].method = "POST" /\ resp[p].status = 200
        /\ req[p].hdr = "" /\ req[p].qry # ""
        /\ Locked(files, NameOf(p))
        /\ Held(files, NameOf(p)).ID = req[p].qry
        /\ pc[q] = "done" /\ req[q].method = "POST" /\ resp[q].status = 423
        /\ req[q].path = req[p].path
        /\ req[q].hdr # "" /\ req[q].hdr # req[q].qry
        /\ req[q].qry = Held(files, NameOf(p)).ID

----------------------------------------------------------------------------
(* SpecScenario: one client sends six requests on one name, each after the *)
(* answer to the one before: LOCK a, LOCK b, POST with claim header b,     *)
(* UNLOCK a, POST without claim identifier, GET.  Slot i holds the i-th    *)
(* request; the repository starts empty.                                   *)

Scenario(path, a, b, other, posted) ==
    << [method |-> "LOCK", path |-> path, body |-> Marshal(a), hdr |-> "", qry |-> ""],
       [method |-> "LOCK", path |-> path, body |-> Marshal(b), hdr |-> "", qry |-> ""],
       [method |-> "POST", path |-> path, body |-> other, hdr |-> b.ID, qry |-> ""],
       [method |-> "UNLOCK", path |-> path, body |-> Marshal(a), hdr |-> "", qry |-> ""],
       [method |-> "POST", path |-> path, body |-> posted, hdr |-> "", qry |-> ""],
       GetRequest(path) >>

\* one slot per request of the scenario
ScenarioSlots ==
    LET any == [ID |-> "", Operation |-> "plan"]
    IN DOMAIN Scenario(RootPath, any, any, NoBody, NoBody)

ScenarioInit ==
    /\ files = <<>>
    /\ \E path \in Paths \ {RootPath}, a, b \in RaceLockInfo, other, posted \in StateBodies :
         /\ a.ID # b.ID
         /\ b.ID # ""
         /\ req = Scenario(path, a, b, other, posted)
    /\ pc = [p \in ScenarioSlots |-> "idle"]
    /\ loc = [p \in ScenarioSlots |-> NoLoc]
    /\ resp = [p \in ScenarioSlots |-> NoResp]
    /\ granted = [n \in Names |-> <<>>]
    /\ saved = {}
    /\ env = ServerEnv
    /\ cfg = LoadConfig(ServerEnv)

\* the next request of the scenario is sent once all before it are answered
ScenarioServe(p) ==
    /\ pc[p] = "idle"
    /\ \A q \in DOMAIN pc : q < p => pc[q] = "done"
    /\ Serve(p, req[p])

ScenarioNext ==
    \E p \in ScenarioSlots :
        \/ ScenarioServe(p)
        \/ LockCreate(p)
        \/ UnlockDelete(p)
        \/ PostExists(p)
        \/ PostWrite(p)

SpecScenario == ScenarioInit /\ [][ScenarioNext]_vars

(* C20 (SpecScenario).  From a name with no lock and no state, in sequence: *)
(* LOCK a is answered 200 echoing a; LOCK b 423 with a as body; POST with   *)
(* claim header b 423; UNLOCK a 200; POST of X without claim header 200;    *)
(* GET 200 with body X.                                                     *)
C20_Scenario ==
    LET a == ClaimOf(req[1])
        answered(i) == pc[i] = "done"
    IN /\ answered(1) => resp[1] = Response(200, Encode(a))
       /\ answered(2) => resp[2] = Response(423, Encode(a))
       /\ answered(3) => resp[3].status = 423
       /\ answered(4) => resp[4].status = 200
       /\ answered(5) => resp[5].status = 200
       /\ answered(6) => resp[6] = Response(200, req[5].body)

C20_Witness ==
    /\ Len(pc) = 6
    /\ AllDone
    /\ resp[2].status = 423
    /\ resp[3].status = 423
    /\ resp[4].status = 200
    /\ resp[6] = Response(200, req[5].body)
    /\ req[5].body # req[3].body
    /\ ~Locked(files, NameOf(6))

(* C21.  Lock lifecycle: the lock of a name changes only in the step that   *)
(* answers a request on that name with 200, from absent to present when the *)
(* request is a LOCK and from present to absent when it is an UNLOCK; so    *)
(* GET, POST and every request answered otherwise leave every lock as it    *)
(* was.                                                                     *)
C21_LockLifecycle ==
    [][\A n \in Names :
         GetFile(files', lockPath(n)) # GetFile(files, lockPath(n)) =>
            \E p \in DOMAIN pc :
                /\ Answers(p)
                /\ extractStateName(req'[p].path) = n
                /\ resp'[p].status = 200
                /\ \/ /\ req'[p].method = "LOCK"
                      /\ ~Locked(files, n) /\ Locked(files', n)
                   \/ /\ req'[p].method = "UNLOCK"
                      /\ Locked(files, n) /\ ~Locked(files', n)]_vars

C21_Witness ==
    \E p, q \in DOMAIN pc :
        /\ pc[p] = "done" /\ req[p].method = "UNLOCK" /\ resp[p].status = 200
        /\ ClaimOf(req[p]).ID # ""
        /\ ~Locked(files, NameOf(p))
        /\ NameOf(p) \in saved
        /\ pc[q] = "done" /\ req[q].method = "POST" /\ resp[q].status = 423
        /\ req[q].path = req[p].path

(* C22.  Stored state is never deleted: a GET on a name on which a POST has *)
(* been answered 200 is answered 200, never 404, whatever LOCK, UNLOCK,     *)
(* POST and GET requests were served in between; the state file of such a   *)
(* name is in the repository in every reachable state.                      *)
C22_StateNeverDeleted ==
    [][/\ \A n \in saved : statePath(n) \in DOMAIN files
       /\ \A p \in DOMAIN pc :
            LET r == req'[p]
                n == extractStateName(r.path)
            IN (Arrives(p) /\ r.method = "GET" /\ n \in saved) =>
                  /\ pc'[p] = "done"
                  /\ resp'[p].status = 200]_vars

C22_Witness ==
    \E p, q \in DOMAIN pc :
        /\ pc[p] = "done" /\ req[p].method = "GET" /\ resp[p].status = 200
        /\ NameOf(p) \in saved
        /\ pc[q] = "done" /\ req[q].method = "UNLOCK" /\ resp[q].status = 200
        /\ req[q].path = req[p].path
        /\ ClaimOf(req[q]).ID # ""
        /\ granted[NameOf(p)] = <<>>

(* C24.  Locks are held in the server's memory and not in the repository:   *)
(* no step of a LOCK or of an UNLOCK creates, updates or deletes a file of  *)
(* the repository.                                                          *)
C24_LocksNotInRepository ==
    [][\A p \in DOMAIN pc :
         (pc'[p] # pc[p] /\ req'[p].method \in {"LOCK", "UNLOCK"}) =>
            files' = files]_vars

----------------------------------------------------------------------------
(* SpecNames: the server on an empty repository serving requests on two    *)
(* state names, "p" and the nested "p/q", MaxProcs requests at a time.     *)

NamesPaths == {<<"/", "p">>, <<"/", "p", "/", "q">>}

TwoNames == {extractStateName(path) : path \in NamesPaths}

NamesRequests ==
    [method : {"GET"}, path : NamesPaths, body : {NoBody}, hdr : {""}, qry : {""}]
    \cup [method : {"POST"}, path : NamesPaths, body : {<<"v1">>},
          hdr : {"", "a"}, qry : {""}]
    \cup [method : {"LOCK"}, path : NamesPaths,
          body : {Marshal([ID |-> i, Operation |-> "plan"]) : i \in {"a", "b"}},
          hdr : {""}, qry : {""}]
    \cup [method : {"UNLOCK"}, path : NamesPaths,
          body : {Marshal([ID |-> "a", Operation |-> "plan"])},
          hdr : {""}, qry : {""}]

NamesInit ==
    /\ files = <<>>
    /\ pc = [p \in Procs |-> "idle"]
    /\ req = [p \in Procs |-> NoReq]
    /\ loc = [p \in Procs |-> NoLoc]
    /\ resp = [p \in Procs |-> NoResp]
    /\ granted = [n \in TwoNames |-> <<>>]
    /\ saved = {}
    /\ env = ServerEnv
    /\ cfg = LoadConfig(ServerEnv)

\* a request on one of the two names arrives (at the lowest free slot)
NamesServe(p) ==
    /\ pc[p] = "idle"
    /\ \A q \in DOMAIN pc : q < p => pc[q] # "idle"
    /\ \E r \in NamesRequests : Serve(p, r)

NamesNext ==
    \E p \in Procs :
        \/ NamesServe(p)
        \/ PostExists(p)
        \/ PostWrite(p)
        \/ LockCreate(p)
        \/ LockRecheck(p)
        \/ UnlockDelete(p)
        \/ Finish(p)

SpecNames == NamesInit /\ [][NamesNext]_vars

\* repository f without the files of every name but n
OnlyName(f, n) ==
    [path \in DOMAIN f \cap {lockPath(n), statePath(n)} |-> f[path]]

----------------------------------------------------------------------------
(* SpecFail: the server on a repository whose calls can fail (Gitea        *)
(* unreachable or answering with an error).  A request carries, as fault,  *)
(* the call that fails while it is served: "read" is the handler's first   *)
(* GetFile, "exists" the FileExists and "write" the CreateFile or          *)
(* UpdateFile of CreateOrUpdateFile.  A call that fails returns an error   *)
(* and leaves the repository as it was.                                    *)

\* GetFile: return nil, "", err
FailedRead == [err |-> TRUE, found |-> FALSE, content |-> <<>>, sha |-> <<>>]

\* FileExists: return false, "", err
FailedExists == [err |-> TRUE, exists |-> FALSE, sha |-> <<>>]

\* CreateFile, UpdateFile: return err
FailedWrite(f) == [err |-> TRUE, files |-> f]

Faulty(r, fault) ==
    [method |-> r.method, path |-> r.path, body |-> r.body,
     hdr |-> r.hdr, qry |-> r.qry, fault |-> fault]

FailRequests ==
    LET path == <<"/", "p">>
        claim == Marshal([ID |-> "a", Operation |-> "plan"])
        posts == [method : {"POST"}, path : {path}, body : StateBodies,
                  hdr : {"", "a"}, qry : {""}]
        others == {GetRequest(path)}
                  \cup [method : {"LOCK", "UNLOCK"}, path : {path}, body : {claim},
                        hdr : {""}, qry : {""}]
    IN {Faulty(r, x) : r \in posts \cup others, x \in {"none", "read"}}
       \cup {Faulty(r, x) : r \in posts, x \in {"exists", "write"}}

\* a request arrives (at the lowest free slot) and is served; its first
\* call into the repository fails when that is its fault
FailServe(p) ==
    /\ pc[p] = "idle"
    /\ \A q \in DOMAIN pc : q < p => pc[q] # "idle"
    /\ \E r \in FailRequests :
         IF r.fault = "read"
         THEN ServeOn(p, r, FirstStepOn(r, FailedRead, FailedRead))
         ELSE Serve(p, r)

PostExistsOk(p) ==
    /\ pc[p] = "post_exists"
    /\ req[p].fault # "exists"
    /\ PostExists(p)

\* handlePost -> CreateOrUpdateFile: FileExists(statePath(name)) fails
PostExistsFail(p) ==
    /\ pc[p] = "post_exists"
    /\ req[p].fault = "exists"
    /\ pc' = [pc EXCEPT ![p] = "post_write"]
    /\ loc' = [loc EXCEPT ![p].st = FailedExists]
    /\ UNCHANGED <<files, req, resp, granted, saved, env, cfg>>

PostWriteOk(p) ==
    /\ pc[p] = "post_write"
    /\ req[p].fault # "write"
    /\ PostWrite(p)

\* handlePost -> CreateOrUpdateFile: UpdateFile or CreateFile fails
PostWriteFail(p) ==
    /\ pc[p] = "post_write"
    /\ req[p].fault = "write"
    /\ LET out == PostSaved(FailedWrite(files))
       IN /\ files' = out.files
          /\ resp' = [resp EXCEPT ![p] = out.resp]
    /\ pc' = [pc EXCEPT ![p] = "done"]
    /\ loc' = [loc EXCEPT ![p] = NoLoc]
    /\ UNCHANGED <<req, granted, saved, env, cfg>>

FailNext ==
    \E p \in Procs :
        \/ FailServe(p)
        \/ PostExistsOk(p)
        \/ PostExistsFail(p)
        \/ PostWriteOk(p)
        \/ PostWriteFail(p)
        \/ LockCreate(p)
        \/ LockRecheck(p)
        \/ UnlockDelete(p)
        \/ Finish(p)

SpecFail == Init /\ [][FailNext]_vars

(* C26 (SpecFail).  Storage failures surface as 500 without mutation: a GET *)
(* whose read of the state fails is answered 500, never 404 or 200, stored  *)
(* state or not; a POST whose write to the repository fails (its existence  *)
(* check or its create/update) is answered 500 and the stored state and the *)
(* lock are what they were when the request arrived at the write; no such   *)
(* step changes a file.                                                     *)
C26_StorageFailures ==
    [][\A p \in DOMAIN pc :
         LET r == req'[p] IN
         /\ (Arrives(p) /\ r.method = "GET" /\ r.fault = "read") =>
               /\ pc'[p] = "done"
               /\ resp'[p].status = 500
               /\ files' = files
         /\ (StepsFrom(p, "post_exists") /\ r.fault = "exists") =>
               files' = files
         /\ (StepsFrom(p, "post_write") /\ r.fault \in {"exists", "write"}) =>
               /\ pc'[p] = "done"
               /\ resp'[p].status = 500
               /\ files' = files
               /\ saved' = saved
               /\ granted' = granted]_vars

C26_Witness ==
    \E p, q \in DOMAIN pc :
        /\ pc[p] = "done" /\ req[p].method = "GET" /\ req[p].fault = "read"
        /\ resp[p].status = 500
        /\ statePath(NameOf(p)) \in DOMAIN files
        /\ pc[q] = "done" /\ req[q].method = "POST" /\ req[q].fault = "write"
        /\ resp[q].status = 500
        /\ req[q].path = req[p].path
        /\ files[statePath(NameOf(p))] # req[q].body
        /\ Locked(files, NameOf(p))

----------------------------------------------------------------------------
(* SpecConfig: the server process is started in some environment and main  *)
(* calls LoadConfig.                                                       *)

\* values of MAX_BODY_SIZE_MB
BodySizeTexts ==
    {<<>>, <<"0">>, <<"0", "0">>, <<"-", "1">>, <<"x">>, <<"1">>, <<"1", "0">>,
     <<"+", "2">>, <<"1", "x">>, <<"-">>}

Envs ==
    [GITEA_URL : {"", "https://gitea"}, GITEA_TOKEN : {"", "t"},
     GITEA_OWNER : {"", "o"}, GITEA_REPO : {"", "r"},
     GITEA_BRANCH : {"", "dev"}, LISTEN_ADDR : {"", ":9"},
     AUTH_TOKEN : {<<>>, <<"s">>}, MAX_BODY_SIZE_MB : BodySizeTexts]

ConfigInit ==
    /\ files = <<>>
    /\ pc = [p \in Procs |-> "idle"]
    /\ req = [p \in Procs |-> NoReq]
    /\ loc = [p \in Procs |-> NoLoc]
    /\ resp = [p \in Procs |-> NoResp]
    /\ granted = [n \in Names |-> <<>>]
    /\ saved = {}
    /\ env \in Envs
    /\ cfg = NotLoaded

\* main: cfg, err := LoadConfig()
Main ==
    /\ cfg = NotLoaded
    /\ cfg' = LoadConfig(env)
    /\ UNCHANGED <<files, pc, req, loc, resp, granted, saved, env>>

ConfigNext == Main

SpecConfig == ConfigInit /\ [][ConfigNext]_vars

(* C29 (SpecConfig).  LoadConfig succeeds exactly when GITEA_URL,           *)
(* GITEA_TOKEN, GITEA_OWNER and GITEA_REPO are all non-empty and            *)
(* MAX_BODY_SIZE_MB, when set, is a positive integer.  On success the       *)
(* configuration carries the four values, GiteaBranch is "main" and         *)
(* ListenAddr ":8080" when unset and the given values otherwise.  On        *)
(* failure no configuration is returned, and when MAX_BODY_SIZE_MB is not   *)
(* at fault the error names the first missing variable in the order URL,    *)
(* TOKEN, OWNER, REPO.                                                      *)
C29_LoadConfig ==
    LET required == <<"GITEA_URL", "GITEA_TOKEN", "GITEA_OWNER", "GITEA_REPO">>
        message == <<"GITEA_URL is required", "GITEA_TOKEN is required",
                     "GITEA_OWNER is required", "GITEA_REPO is required">>
        mb == env.MAX_BODY_SIZE_MB
        digits == IF mb # <<>> /\ Head(mb) = "+" THEN Tail(mb) ELSE mb
        positive == /\ digits # <<>>
                    /\ \A i \in 1..Len(digits) : digits[i] \in Digits
                    /\ \E i \in 1..Len(digits) : digits[i] # "0"
        sizeOk == mb = <<>> \/ positive
        allSet == \A i \in 1..4 : env[required[i]] # ""
    IN cfg # NotLoaded =>
         /\ cfg.err = <<>> <=> (allSet /\ sizeOk)
         /\ cfg.err = <<>> =>
               /\ Len(cfg.config) = 1
               /\ cfg.config[1].GiteaURL = env.GITEA_URL
               /\ cfg.config[1].GiteaToken = env.GITEA_TOKEN
               /\ cfg.config[1].GiteaOwner = env.GITEA_OWNER
               /\ cfg.config[1].GiteaRepo = env.GITEA_REPO
               /\ cfg.config[1].GiteaBranch =
                     IF env.GITEA_BRANCH = "" THEN "main" ELSE env.GITEA_BRANCH
               /\ cfg.config[1].ListenAddr =
                     IF env.LISTEN_ADDR = "" THEN ":8080" ELSE env.LISTEN_ADDR
         /\ cfg.err # <<>> => cfg.config = <<>>
         /\ \A i \in 1..4 :
               (/\ sizeOk
                /\ env[required[i]] = ""
                /\ \A j \in 1..(i - 1) : env[required[j]] # "") =>
                  cfg.err = <<message[i]>>

C29_Witness ==
    /\ cfg # NotLoaded
    /\ cfg.err = <<>>
    /\ env.GITEA_BRANCH = "" /\ cfg.config[1].GiteaBranch = "main"
    /\ env.LISTEN_ADDR = ":9" /\ cfg.config[1].ListenAddr = ":9"
    /\ env.MAX_BODY_SIZE_MB = <<"1", "0">>

----------------------------------------------------------------------------
(* Authentication and routing (main, authMiddleware, handleHealth).  An    *)
(* Authorization header is a sequence: the scheme with its space, then the *)
(* characters of a Bearer token or the base64 units of Basic credentials;  *)
(* <<>> is a request without the header.                                   *)

HealthPath == <<"/", "health">>
MetricsPath == <<"/", "metrics">>

\* a mux that sends every path to the state handler
RouteAllState(path) == "state"

\* a mux that matches on the trimmed name instead of the exact path
RouteByName(path) ==
    IF extractStateName(path) = <<"health">> THEN "health"
    ELSE IF extractStateName(path) = <<"metrics">> THEN "metrics"
    ELSE "state"

\* main's ServeMux: "/health" and "/metrics" match exactly, "/" the rest
Route(path) ==
    IF path = HealthPath THEN "health"
    ELSE IF path = MetricsPath THEN "metrics"
    ELSE "state"

handleHealth == Response(200, <<"{\"status\":\"ok\"}">>)

\* MetricsHandler: the Prometheus exposition
MetricsHandler == Response(200, <<"metrics">>)

\* authMiddleware's refusal
Unauthorized ==
    [status |-> 401, body |-> <<"unauthorized">>,
     wwwAuthenticate |-> <<"Bearer realm=\"terraform-state\"">>]

\* what clients send
BearerHeader(tok) == <<"Bearer ">> \o tok
BasicHeader(user, pass) == <<"Basic ">> \o EncodeToString(user \o <<":">> \o pass)

\* credentials read with the username taken for the password
BasicAuthSwapped(auth) ==
    LET decoded == DecodeString(Tail(auth))
        colons == {i \in 1..Len(decoded.bytes) : decoded.bytes[i] = ":"}
        first == CHOOSE i \in colons : \A j \in colons : i <= j
    IN IF decoded.err \/ colons = {}
       THEN [username |-> <<>>, password |-> <<>>, ok |-> FALSE]
       ELSE [username |-> SubSeq(decoded.bytes, first + 1, Len(decoded.bytes)),
             password |-> SubSeq(decoded.bytes, 1, first - 1),
             ok |-> TRUE]

\* r.BasicAuth() on a header that starts with "Basic ": the rest is decoded
\* and cut at its first colon
BasicAuth(auth) ==
    LET decoded == DecodeString(Tail(auth))
        colons == {i \in 1..Len(decoded.bytes) : decoded.bytes[i] = ":"}
        first == CHOOSE i \in colons : \A j \in colons : i <= j
    IN IF decoded.err \/ colons = {}
       THEN [username |-> <<>>, password |-> <<>>, ok |-> FALSE]
       ELSE [username |-> SubSeq(decoded.bytes, 1, first - 1),
             password |-> SubSeq(decoded.bytes, first + 1, Len(decoded.bytes)),
             ok |-> TRUE]

\* authMiddleware: providedToken
ProvidedToken(auth) ==
    IF auth # <<>> /\ Head(auth) = "Bearer " THEN Tail(auth)
    ELSE IF auth # <<>> /\ Head(auth) = "Basic "
    THEN IF BasicAuth(auth).ok THEN BasicAuth(auth).password ELSE <<>>
    ELSE <<>>

\* authMiddleware(token, stateHandler) on request r, repository f
authMiddleware(token, f, r) ==
    IF ProvidedToken(r.auth) # token
    THEN [pc |-> "done", resp |-> Unauthorized, seen |-> NoFile]
    ELSE FirstStep(f, r)

\* main's handler under configuration c: the mux, the middleware when a
\* token is configured, the state handler's first step
MainHandler(c, f, r) ==
    IF Route(r.path) = "health"
    THEN [pc |-> "done", resp |-> handleHealth, seen |-> NoFile]
    ELSE IF Route(r.path) = "metrics"
    THEN [pc |-> "done", resp |-> MetricsHandler, seen |-> NoFile]
    ELSE IF c.AuthToken # <<>>
    THEN authMiddleware(c.AuthToken, f, r)
    ELSE FirstStep(f, r)

----------------------------------------------------------------------------
(* SpecAuth: the server started with an AUTH_TOKEN, on an empty            *)
(* repository, MaxProcs requests at a time.                                *)

AuthTokens == {<<"s">>, <<"s", ":", "t">>}

\* tokens and usernames clients present
PresentedTokens == AuthTokens \cup {<<"t">>}
Users == {<<>>, <<"s">>}

\* headers that carry no credentials the middleware reads
OtherHeaders ==
    {<<>>, <<"s">>, <<"bearer ", "s">>,
     <<"Basic ">> \o EncodeToString(<<"s">>),
     <<"Basic ", <<"raw", "!">>>>}

AuthHeaders ==
    {BearerHeader(t) : t \in PresentedTokens \cup {<<>>}}
    \cup {BasicHeader(u, t) : u \in Users, t \in PresentedTokens}
    \cup OtherHeaders

WithAuth(r, auth) ==
    [method |-> r.method, path |-> r.path, body |-> r.body,
     hdr |-> r.hdr, qry |-> r.qry, auth |-> auth]

AuthRequests ==
    LET path == <<"/", "p">>
        claim == Marshal([ID |-> "a", Operation |-> "plan"])
        base == {GetRequest(path), GetRequest(HealthPath), GetRequest(MetricsPath),
                 GetRequest(HealthPath \o <<"/">>)}
                \cup [method : {"POST"}, path : {path, HealthPath}, body : {<<"v1">>},
                      hdr : {""}, qry : {""}]
                \cup [method : {"LOCK", "UNLOCK"}, path : {path}, body : {claim},
                      hdr : {""}, qry : {""}]
    IN {WithAuth(r, a) : r \in base, a \in AuthHeaders}

AuthInit ==
    /\ files = <<>>
    /\ pc = [p \in Procs |-> "idle"]
    /\ req = [p \in Procs |-> NoReq]
    /\ loc = [p \in Procs |-> NoLoc]
    /\ resp = [p \in Procs |-> NoResp]
    /\ granted = [n \in Names |-> <<>>]
    /\ saved = {}
    /\ \E token \in AuthTokens : env = [ServerEnv EXCEPT !.AUTH_TOKEN = token]
    /\ cfg = LoadConfig(env)

\* a request arrives (at the lowest free slot) at main's handler
AuthServe(p) ==
    /\ pc[p] = "idle"
    /\ \A q \in DOMAIN pc : q < p => pc[q] # "idle"
    /\ \E r \in AuthRequests : ServeOn(p, r, MainHandler(cfg.config[1], files, r))

AuthNext ==
    \E p \in Procs :
        \/ AuthServe(p)
        \/ PostExists(p)
        \/ PostWrite(p)
        \/ LockCreate(p)
        \/ LockRecheck(p)
        \/ UnlockDelete(p)
        \/ Finish(p)

SpecAuth == AuthInit /\ [][AuthNext]_vars

\* in this step the request of slot p is refused by the middleware
Refused(p) ==
    /\ pc'[p] = "done"
    /\ resp'[p].status = 401
    /\ resp'[p].wwwAuthenticate = <<"Bearer realm=\"terraform-state\"">>
    /\ files' = files
    /\ granted' = granted
    /\ saved' = saved

\* in this step the request of slot p is taken by the state handler
Forwarded(p) ==
    FirstStep(files, req'[p]) =
       [pc |-> pc'[p], resp |-> resp'[p], seen |-> loc'[p].seen]

(* C27 (SpecAuth).  With a token configured, a request to the state handler *)
(* is forwarded exactly when the token it presents, the text after          *)
(* "Bearer " or the password of well-formed Basic credentials whatever the  *)
(* username, equals the configured token; any other request is answered 401 *)
(* with a WWW-Authenticate header, the state handler is not invoked and     *)
(* neither a lock nor a state changes.                                      *)
C27_AuthMiddleware ==
    [][\A p \in DOMAIN pc :
         LET r == req'[p]
             token == env.AUTH_TOKEN
         IN (Arrives(p) /\ r.path \notin {HealthPath, MetricsPath}) =>
              /\ \A t \in PresentedTokens \cup {<<>>} :
                    r.auth = BearerHeader(t) =>
                       IF t = token THEN Forwarded(p) ELSE Refused(p)
              /\ \A u \in Users, t \in PresentedTokens :
                    r.auth = BasicHeader(u, t) =>
                       IF t = token THEN Forwarded(p) ELSE Refused(p)
              /\ r.auth \in OtherHeaders => Refused(p)]_vars

C27_Witness ==
    \E p, q \in DOMAIN pc :
        /\ pc[p] = "done" /\ req[p].method = "LOCK" /\ resp[p].status = 200
        /\ req[p].auth = BasicHeader(<<"s">>, <<"s", ":", "t">>)
        /\ Locked(files, NameOf(p))
        /\ pc[q] = "done" /\ req[q].method = "UNLOCK" /\ resp[q].status = 401
        /\ req[q].auth = BasicHeader(<<"s">>, <<"t">>)
        /\ req[q].path = req[p].path

(* C28 (SpecAuth).  /health and /metrics need no authentication: with a     *)
(* token configured, a request on /health is answered 200 with body         *)
(* {"status":"ok"} whatever credentials it carries, none included, and a    *)
(* request on /metrics is not refused, while every request on another path  *)
(* that does not carry the configured token is answered 401.                *)
C28_HealthOpen ==
    [][\A p \in DOMAIN pc :
         LET r == req'[p]
             valid == {BearerHeader(env.AUTH_TOKEN)}
                      \cup {BasicHeader(u, env.AUTH_TOKEN) : u \in Users}
         IN Arrives(p) =>
              /\ env.AUTH_TOKEN # <<>>
              /\ r.path = HealthPath =>
                    /\ pc'[p] = "done"
                    /\ resp'[p] = Response(200, <<"{\"status\":\"ok\"}">>)
                    /\ files' = files
              /\ r.path = MetricsPath =>
                    /\ pc'[p] = "done"
                    /\ resp'[p].status = 200
              /\ (r.path \notin {HealthPath, MetricsPath} /\ r.auth \notin valid) =>
                    /\ pc'[p] = "done"
                    /\ resp'[p].status = 401]_vars

C28_Witness ==
    \E p, q \in DOMAIN pc :
        /\ pc[p] = "done" /\ req[p].path = HealthPath /\ req[p].auth = <<>>
        /\ resp[p].status = 200
        /\ pc[q] = "done" /\ req[q].method = "GET" /\ req[q].auth = <<>>
        /\ NameOf(q) \in saved
        /\ resp[q].status = 401

----------------------------------------------------------------------------
(* SpecPaths: on an empty repository a client POSTs a state on one path    *)
(* and, once answered, GETs another path; the two paths are any request    *)
(* paths of at most MaxPathLen characters among "/", "a" and "b".          *)

\* length of the longest request path
MaxPathLen == 4

PathChars == {"/", "a", "b"}

\* r.URL.Path values: they start with a slash
AllPaths ==
    {s \in UNION {[1..k -> PathChars] : k \in 1..MaxPathLen} : s[1] = "/"}

PathsSlots == {1, 2}

PathsInit ==
    /\ files = <<>>
    /\ \E posted \in AllPaths, got \in AllPaths :
         req = << [method |-> "POST", path |-> posted, body |-> <<"v1">>,
                   hdr |-> "", qry |-> ""],
                  GetRequest(got) >>
    /\ pc = [p \in PathsSlots |-> "idle"]
    /\ loc = [p \in PathsSlots |-> NoLoc]
    /\ resp = [p \in PathsSlots |-> NoResp]
    /\ granted = [n \in Names |-> <<>>]
    /\ saved = {}
    /\ env = ServerEnv
    /\ cfg = LoadConfig(ServerEnv)

\* the GET is sent once the POST is answered
PathsServe(p) ==
    /\ pc[p] = "idle"
    /\ \A q \in PathsSlots : q < p => pc[q] = "done"
    /\ Serve(p, req[p])

PathsNext ==
    \E p \in PathsSlots :
        \/ PathsServe(p)
        \/ PostExists(p)
        \/ PostWrite(p)

SpecPaths == PathsInit /\ [][PathsNext]_vars

(* C30 (SpecPaths).  The state file of a name is at "states/" + name +       *)
(* "/terraform.tfstate", the name verbatim, slashes inside it included: a    *)
(* POST answered 200 leaves that file and no other in the repository, and    *)
(* distinct names never share the file: the GET that follows is answered     *)
(* 200 with the posted state exactly when it is on the same name, and 404    *)
(* when it is on another name.                                               *)
C30_StatePath ==
    LET n == extractStateName(req[1].path)
        m == extractStateName(req[2].path)
    IN /\ (pc[1] = "done" /\ n # <<>>) =>
             /\ resp[1].status = 200
             /\ DOMAIN files = {<<"states", "/">> \o n \o <<"/", "terraform.tfstate">>}
       /\ (pc[2] = "done" /\ n # <<>> /\ m # <<>>) =>
             IF m = n THEN resp[2] = Response(200, req[1].body)
             ELSE resp[2].status = 404
       /\ (n # <<>> /\ m # <<>> /\ n # m) =>
             /\ statePath(n) # statePath(m)
             /\ statePath(n) = <<"states", "/">> \o n \o <<"/", "terraform.tfstate">>

C30_Witness ==
    /\ AllDone
    /\ resp[1].status = 200
    /\ resp[2].status = 404
    /\ NameOf(1) = <<"a", "/", "b">>
    /\ NameOf(2) = <<"b">>

----------------------------------------------------------------------------
(* SpecTrim: on an empty repository a client sends, each after the answer  *)
(* to the one before, a POST on one path, a GET on another, a LOCK on the  *)
(* first path and a LOCK by another claim on the second; the two paths are *)
(* any of AllPaths.                                                        *)

TrimNames == {extractStateName(path) : path \in AllPaths} \ {<<>>}

TrimSlots == 1..4

TrimInit ==
    /\ files = <<>>
    /\ \E first \in AllPaths, second \in AllPaths :
         req = << [method |-> "POST", path |-> first, body |-> <<"v1">>,
                   hdr |-> "", qry |-> ""],
                  GetRequest(second),
                  [method |-> "LOCK", path |-> first,
                   body |-> Marshal([ID |-> "a", Operation |-> "plan"]),
                   hdr |-> "", qry |-> ""],
                  [method |-> "LOCK", path |-> second,
                   body |-> Marshal([ID |-> "b", Operation |-> "plan"]),
                   hdr |-> "", qry |-> ""] >>
    /\ pc = [p \in TrimSlots |-> "idle"]
    /\ loc = [p \in TrimSlots |-> NoLoc]
    /\ resp = [p \in TrimSlots |-> NoResp]
    /\ granted = [n \in TrimNames |-> <<>>]
    /\ saved = {}
    /\ env = ServerEnv
    /\ cfg = LoadConfig(ServerEnv)

\* the next request is sent once all before it are answered
TrimServe(p) ==
    /\ pc[p] = "idle"
    /\ \A q \in TrimSlots : q < p => pc[q] = "done"
    /\ Serve(p, req[p])

TrimNext ==
    \E p \in TrimSlots :
        \/ TrimServe(p)
        \/ PostExists(p)
        \/ PostWrite(p)
        \/ LockCreate(p)

SpecTrim == TrimInit /\ [][TrimNext]_vars

\* k slashes
Slashes(k) == [i \in 1..k |-> "/"]

\* path is core between some leading and some trailing slashes
Pads(path, core) ==
    \E i, j \in 0..Len(path) : path = Slashes(i) \o core \o Slashes(j)

\* the two paths differ in leading and trailing slashes only, around a
\* non-empty core that neither starts nor ends with a slash
SameCore(path, other) ==
    \E a, b \in 1..Len(path) :
        LET core == SubSeq(path, a, b) IN
        /\ a <= b
        /\ core[1] # "/" /\ core[Len(core)] # "/"
        /\ Pads(path, core) /\ Pads(other, core)

(* C31 (SpecTrim).  extractStateName removes every leading and trailing     *)
(* slash of the request path and keeps the characters between them          *)
(* verbatim: the path is the name between slashes, the name neither starts  *)
(* nor ends with a slash, and trimming the name again gives the name.       *)
(* Paths that differ only in leading or trailing slashes address the same   *)
(* state (a GET on one returns what was POSTed on the other) and the same   *)
(* lock (a LOCK on one is refused with the claim granted on the other).     *)
C31_ExtractStateName ==
    /\ \A p \in TrimSlots :
         LET n == extractStateName(req[p].path) IN
         /\ Pads(req[p].path, n)
         /\ n # <<>> => (n[1] # "/" /\ n[Len(n)] # "/")
         /\ extractStateName(n) = n
    /\ (pc[2] = "done" /\ SameCore(req[1].path, req[2].path)) =>
          resp[2] = Response(200, req[1].body)
    /\ (pc[4] = "done" /\ SameCore(req[3].path, req[4].path)) =>
          /\ resp[3].status = 200
          /\ resp[4] = Response(423, Encode(ClaimOf(req[3])))

C31_Witness ==
    /\ AllDone
    /\ req[1].path = <<"/", "/", "a", "/">>
    /\ req[2].path = <<"/", "a">>
    /\ resp[2].status = 200
    /\ resp[4].status = 423

(* C32.  Writers are serialized by the lock under concurrency: the write of *)
(* a POST carrying claim identifier x is never applied to the repository    *)
(* while the lock of its name is held by a claim with another ID, also when *)
(* a LOCK completes between the POST's lock check and its write.            *)
C32_WritersSerialized ==
    [][\A p \in DOMAIN pc :
         LET n == extractStateName(req[p].path) IN
         (StepsFrom(p, "post_write") /\ files' # files /\ Locked(files, n)) =>
            Held(files, n).ID = CallerID(req[p])]_vars

C34_StateChangesOnlyByPost ==
    [][\A n \in TwoNames :
         GetFile(files', statePath(n)) # GetFile(files, statePath(n)) =>
            \E p \in DOMAIN pc :
                /\ Answers(p)
                /\ req'[p].method = "POST"
                /\ extractStateName(req'[p].path) = n
                /\ resp'[p].status = 200
                /\ GetFile(files', statePath(n)).found
                /\ GetFile(files', statePath(n)).content = req'[p].body]_vars

C34_Witness ==
    \E p, q \in DOMAIN pc :
        /\ pc[p] = "done" /\ req[p].method = "POST" /\ resp[p].status = 200
        /\ files[statePath(NameOf(p))] = req[p].body
        /\ pc[q] = "done" /\ req[q].method = "POST" /\ resp[q].status = 500
        /\ req[q].path = req[p].path
        /\ \E n \in TwoNames : n # NameOf(p) /\ statePath(n) \notin DOMAIN files
                               /\ Locked(files, n)

(* C35.  GET is not gated by the lock: a GET on a non-empty name, which     *)
(* carries no claim identifier, is answered 200 with the stored state, or   *)
(* 404 when none is stored, whether the name is unlocked or locked by any   *)
(* claim: the answer is the one given with the lock file removed, and it is *)
(* never 423.                                                               *)
C35_GetNotGated ==
    [][\A p \in DOMAIN pc :
         LET r == req'[p]
             n == extractStateName(r.path)
             unlocked == [path \in DOMAIN files \ {lockPath(n)} |-> files[path]]
         IN (Arrives(p) /\ r.method = "GET" /\ n # <<>>) =>
              /\ pc'[p] = "done"
              /\ resp'[p] = IF statePath(n) \in DOMAIN files
                            THEN Response(200, files[statePath(n)])
                            ELSE Error("404 page not found", 404)
              /\ resp'[p] = FirstStep(unlocked, r).resp
              /\ resp'[p].status # 423]_vars

C35_Witness ==
    \E p, q \in DOMAIN pc :
        /\ pc[p] = "done" /\ req[p].method = "GET" /\ resp[p].status = 200
        /\ Locked(files, NameOf(p))
        /\ Held(files, NameOf(p)).ID = "b"
        /\ pc[q] = "done" /\ req[q].method = "POST" /\ resp[q].status = 423
        /\ req[q].path = req[p].path

ValidHeaders ==
    {BearerHeader(env.AUTH_TOKEN)} \cup {BasicHeader(u, env.AUTH_TOKEN) : u \in Users}

----------------------------------------------------------------------------
(* SpecBodySize: the server is started with the required variables set and *)
(* some MAX_BODY_SIZE_MB, among which the values around the largest number *)
(* of megabytes an int64 can hold in bytes, and main calls LoadConfig.     *)

\* MAX_BODY_SIZE_MB: up to two digits, and values around 2^43, 2^44, 2^63
\* and 2^64
SizeTexts ==
    {<<>>}
    \cup {<<d>> : d \in Digits}
    \cup {<<d, e>> : d \in Digits, e \in Digits}
    \cup {<<"8", "7", "9", "6", "0", "9", "3", "0", "2", "2", "2", "0", "7">>,
          <<"8", "7", "9", "6", "0", "9", "3", "0", "2", "2", "2", "0", "8">>,
          <<"1", "7", "5", "9", "2", "1", "8", "6", "0", "4", "4", "4", "1", "6">>,
          <<"9", "2", "2", "3", "3", "7", "2", "0", "3", "6", "8", "5", "4", "7", "7", "5", "8", "0", "7">>,
          <<"9", "2", "2", "3", "3", "7", "2", "0", "3", "6", "8", "5", "4", "7", "7", "5", "8", "0", "8">>,
          <<"1", "8", "4", "4", "6", "7", "4", "4", "0", "7", "3", "7", "0", "9", "5", "5", "1", "6", "1", "6">>,
          <<"9", "9", "9", "9", "9", "9", "9", "9", "9", "9", "9", "9", "9", "9", "9", "9", "9", "9", "9", "9">>,
          <<"-", "9", "2", "2", "3", "3", "7", "2", "0", "3", "6", "8", "5", "4", "7", "7", "5", "8", "0", "8">>,
          <<"+", "8", "7", "9", "6", "0", "9", "3", "0", "2", "2", "2", "0", "8">>,
          <<"1", "0", "4", "8", "5", "7", "6">>,
          <<"4", "0", "9", "6">>}

BodySizeInit ==
    /\ files = <<>>
    /\ pc = [p \in Procs |-> "idle"]
    /\ req = [p \in Procs |-> NoReq]
    /\ loc = [p \in Procs |-> NoLoc]
    /\ resp = [p \in Procs |-> NoResp]
    /\ granted = [n \in Names |-> <<>>]
    /\ saved = {}
    /\ \E text \in SizeTexts : env = [ServerEnv EXCEPT !.MAX_BODY_SIZE_MB = text]
    /\ cfg = NotLoaded

SpecBodySize == BodySizeInit /\ [][ConfigNext]_vars

\* x divided by the small d, on 64 bits taken as unsigned
DivSmall(x, d) ==
    LET r4 == x[4] % d
        r3 == (r4 * Limb + x[3]) % d
        r2 == (r3 * Limb + x[2]) % d
    IN <<(r2 * Limb + x[1]) \div d, (r3 * Limb + x[2]) \div d,
         (r4 * Limb + x[3]) \div d, x[4] \div d>>

(* C38 (SpecBodySize).  For every MAX_BODY_SIZE_MB that LoadConfig accepts   *)
(* the resulting MaxBodySize is strictly positive and is the value times    *)
(* 2^20 without 64-bit overflow (dividing it by 2^20 gives the value back); *)
(* when the variable is unset MaxBodySize is 50 * 2^20.                     *)
C38_MaxBodySize ==
    (cfg # NotLoaded /\ cfg.err = <<>>) =>
       LET size == cfg.config[1].MaxBodySize IN
       IF env.MAX_BODY_SIZE_MB = <<>>
       THEN size = <<(50 * (2^20)) % (2^16), (50 * (2^20)) \div (2^16), 0, 0>>
       ELSE /\ ~Negative(size)
            /\ size # Int64(0)
            /\ DivSmall(DivSmall(size, 2^10), 2^10)
                  = ParseInt(env.MAX_BODY_SIZE_MB).val

----------------------------------------------------------------------------
(* SpecNamesFair: SpecNames on a repository that always answers, every     *)
(* request in flight being scheduled: a handler that can take its next     *)
(* step eventually takes it.  Arrivals and the reuse of a slot are not     *)
(* forced.                                                                 *)

HandlerStep(p) ==
    \/ PostExists(p)
    \/ PostWrite(p)
    \/ LockCreate(p)
    \/ LockRecheck(p)
    \/ UnlockDelete(p)

SpecNamesFair == SpecNames /\ \A p \in Procs : WF_vars(HandlerStep(p))

(* C39 (SpecNamesFair).  Under fair scheduling and a repository that always *)
(* answers, every request terminates with exactly one response: a request   *)
(* in flight is eventually answered, whatever LOCK, UNLOCK, POST and GET    *)
(* requests on the same or on another name are served meanwhile; and its    *)
(* response is written once, in the step that ends it, and stays until the  *)
(* slot is given up.                                                        *)
C39_EveryRequestAnswered ==
    /\ \A p \in Procs : (pc[p] \notin {"idle", "done"}) ~> (pc[p] = "done")
    /\ [][\A p \in Procs :
            /\ resp'[p] # resp[p] =>
                  \/ resp[p] = NoResp /\ Answers(p)
                  \/ pc[p] = "done" /\ pc'[p] = "idle" /\ resp'[p] = NoResp
            /\ Answers(p) => resp'[p] # NoResp]_vars

C39_Witness ==
    \E p, q \in DOMAIN pc :
        /\ pc[p] = "done" /\ req[p].method = "LOCK"
        /\ resp[p].status = 423
        /\ pc[q] = "unlock_delete"
        /\ req[q].path = req[p].path
        /\ \E n \in TwoNames : n # NameOf(p) /\ Locked(files, n)

====
